---- MODULE Spec2Model ----
(***************************************************************************)
(* SafeCast: the Waku node session (SafeCastWaku), the signed-message      *)
(* callback and the Tor integration manager, as state machines.            *)
(*                                                                         *)
(* An async method is split at its awaits: one action per synchronous      *)
(* segment.  The outcome of a call into the transport (createLightNode,    *)
(* start, filter.subscribe, lightPush.send) or of a Tor probe is chosen    *)
(* by the environment.                                                     *)
(***************************************************************************)
EXTENDS Integers, Sequences, FiniteSets, TLC

\* ---------------------------------------------------------------- bounds
MaxNodes == 2
MaxDeliveries == 2
MaxSends == 1
NumKeys == 2
NumCallbacks == 2

NodeIds == 1..MaxNodes
NoNode == 0
Keys == 1..NumKeys
Callbacks == 1..NumCallbacks
NoCallback == 0

\* Outcome of an awaited call into an external collaborator.
Outcomes == {"ok", "throw"}

\* ------------------------------------------------------------ SafeCastWaku
VARIABLES
    node,             \* this.node: NoNode or the id of a light node
    encoder,          \* this.encoder
    decoder,          \* this.decoder
    isConnected,      \* this.isConnected
    messageCallback,  \* this.messageCallback: NoCallback or a callback
    config,           \* this.config
    nodeStatus,       \* transport: life cycle of every light node
    subscription,     \* transport: decoder of the filter subscription of a node
    initCall,         \* the initialize() call: position and locals
    shutdownCall,     \* the shutdown() call: position and locals
    sendCall,         \* the sendMessage() call: position
    initResult,       \* what the last initialize() returned
    sendResult,       \* what the last sendMessage() returned
    sendCalls,        \* number of lightPush.send invocations
    handled,          \* number of messages the transport has delivered
    observerLog,      \* per callback, the deliveries it was invoked with
    lastOp,           \* history: the caller operation that completed last
    verifiedLog,      \* deliveries passed to onMessageVerified
    invalidLog        \* deliveries and reasons passed to onMessageInvalid

wakuVars == <<node, encoder, decoder, isConnected, messageCallback, config,
              nodeStatus, subscription, initCall, shutdownCall, sendCall,
              initResult, sendResult, sendCalls, handled, observerLog,
              lastOp, verifiedLog, invalidLog>>

\* State of the TorIntegrationManager and the managers it owns.
VARIABLES
    torIsConnected,   \* TorProxyManager.isConnected
    isInitialized,    \* TorIntegrationManager.isInitialized
    rpcConfigs,       \* PrivateRPCManager.rpcConfigs: entries in insertion order
    torCall,          \* the initialize() call: position and probe counts
    torResult,        \* what the last initialize() returned
    torLastOp,        \* history: the manager operation that completed last
    services,         \* OnionServiceManager.services: per id, the record
    servicesCreated,  \* number of onion service records created
    onionResult,      \* what the last createSafeCastOnionService() returned
    rpcCall,          \* the makePrivateCall() call: position and locals
    rpcResult,        \* what the last makePrivateCall() returned
    rpcDispatched     \* number of calls dispatched to an endpoint

torVars == <<torIsConnected, isInitialized, rpcConfigs, torCall, torResult,
             torLastOp, services, servicesCreated, onionResult, rpcCall,
             rpcResult, rpcDispatched>>

proxyVars == <<torIsConnected, isInitialized, rpcConfigs, torCall, torResult>>

onionVars == <<services, servicesCreated, onionResult>>

rpcVars == <<rpcCall, rpcResult, rpcDispatched>>

\* The last application of verifyMessageSignature.
VARIABLES
    verification      \* its arguments and the result it returned

signVars == <<verification>>

\* The key-management and codec utilities: hex conversion, key storage and
\* the encoder and decoder factories.
VARIABLES
    hexCall,          \* the last hex conversion: bytes, hex string, bytes restored
    storage,          \* localStorage: the item under the storage key
    keyCall,          \* the last key-storage operation and what it returned
    codecLib,         \* which @waku/message-encryption API the build resolved
    codecWire,        \* the last encoded message
    codecResult       \* the last decoding and what it returned

hexVars == <<hexCall>>

keyVars == <<storage, keyCall>>

codecVars == <<codecLib, codecWire, codecResult>>

\* The last run of handleReceivedMessage, and the state of the React hooks.
VARIABLES
    received,         \* the payload it was given, whether it threw or forwarded
    hooks             \* per hook: its useState values and its calls in flight

recvVars == <<received>>

hookVars == <<hooks>>

utilVars == <<hexVars, keyVars, codecVars, recvVars, hookVars>>

vars == <<wakuVars, torVars, signVars, utilVars>>

contentTopic == "/safecast/1/message/proto"

NullCodec == [kind |-> "null", contentTopic |-> "", symKey |-> 0]

createEncoder(topic, key) ==
    [kind |-> "encoder", contentTopic |-> topic, symKey |-> key]

createDecoder(topic, key) ==
    [kind |-> "decoder", contentTopic |-> topic, symKey |-> key]

\* shutdownSeen is history: a shutdown() was entered while this initialize()
\* call was in flight.
IdleInit == [pc |-> "idle", node |-> NoNode, subNode |-> NoNode,
             subDecoder |-> NullCodec, wasReady |-> FALSE, nodesBefore |-> 0,
             shutdownSeen |-> FALSE]

IdleShutdown == [pc |-> "idle", node |-> NoNode]

nodesCreated == Cardinality({n \in NodeIds : nodeStatus[n] # "absent"})

\* No caller-invoked operation of the session is in flight.
CallerIdle ==
    /\ initCall.pc = "idle"
    /\ shutdownCall.pc = "idle"
    /\ sendCall = "idle"

WakuInit ==
    /\ node = NoNode
    /\ encoder = NullCodec
    /\ decoder = NullCodec
    /\ isConnected = FALSE
    /\ messageCallback = NoCallback
    /\ config \in {[contentTopic |-> contentTopic, symKey |-> k] : k \in Keys}
    /\ nodeStatus = [n \in NodeIds |-> "absent"]
    /\ subscription = [n \in NodeIds |-> NullCodec]
    /\ initCall = IdleInit
    /\ shutdownCall = IdleShutdown
    /\ sendCall = "idle"
    /\ initResult = "none"
    /\ sendResult = "none"
    /\ sendCalls = 0
    /\ handled = 0
    /\ observerLog = [c \in Callbacks |-> <<>>]
    /\ lastOp = "none"
    /\ verifiedLog = {}
    /\ invalidLog = {}

\* ---- initialize(), part_000 lines 48-79 --------------------------------
\* Entry up to the first await: createLightNode() is called.
InitializeBegin ==
    /\ initCall.pc = "idle"
    /\ nodesCreated < MaxNodes
    /\ initCall' = [IdleInit EXCEPT !.pc = "createLightNode",
                                     !.wasReady = isConnected,
                                     !.nodesBefore = nodesCreated]
    /\ UNCHANGED <<node, encoder, decoder, isConnected, messageCallback,
                   config, nodeStatus, subscription, shutdownCall, sendCall,
                   initResult, sendResult, sendCalls, handled, observerLog,
                   lastOp, verifiedLog, invalidLog>>
    /\ UNCHANGED <<torVars, signVars, utilVars>>

\* createLightNode() settles: this.node is assigned and node.start() called,
\* or the rejection is caught and initialize() returns false.
CreateLightNodeReturn(o) ==
    /\ initCall.pc = "createLightNode"
    /\ IF o = "ok"
       THEN LET n == nodesCreated + 1 IN
            /\ node' = n
            /\ nodeStatus' = [nodeStatus EXCEPT ![n] = "starting"]
            /\ initCall' = [initCall EXCEPT !.pc = "start", !.node = n]
            /\ UNCHANGED <<initResult, lastOp>>
       ELSE /\ initCall' = [initCall EXCEPT !.pc = "idle"]
            /\ initResult' = "false"
            /\ lastOp' = "initialize"
            /\ UNCHANGED <<node, nodeStatus>>
    /\ UNCHANGED <<encoder, decoder, isConnected, messageCallback, config,
                   subscription, shutdownCall, sendCall, sendResult,
                   sendCalls, handled, observerLog, verifiedLog, invalidLog>>
    /\ UNCHANGED <<torVars, signVars, utilVars>>

\* setupMessageSubscription() up to its await, part_000 lines 84-91:
\* the node to subscribe on, NoNode when the method returns early.
SubscriptionTarget(n, d) ==
    IF n = NoNode \/ d = NullCodec THEN NoNode ELSE n

\* node.start() settles: encoder and decoder are built from the config and
\* setupMessageSubscription() is entered, or the rejection is caught.
StartReturn(o) ==
    /\ initCall.pc = "start"
    /\ IF o = "ok"
       THEN LET d == createDecoder(config.contentTopic, config.symKey) IN
            /\ nodeStatus' = [nodeStatus EXCEPT ![initCall.node] =
                                 IF @ = "starting" THEN "started" ELSE @]
            /\ encoder' = createEncoder(config.contentTopic, config.symKey)
            /\ decoder' = d
            /\ initCall' = [initCall EXCEPT
                                !.pc = "subscribe",
                                !.subNode = SubscriptionTarget(node, d),
                                !.subDecoder = d]
            /\ UNCHANGED <<initResult, lastOp>>
       ELSE /\ nodeStatus' = [nodeStatus EXCEPT ![initCall.node] =
                                 IF @ = "starting" THEN "created" ELSE @]
            /\ initCall' = [initCall EXCEPT !.pc = "idle"]
            /\ initResult' = "false"
            /\ lastOp' = "initialize"
            /\ UNCHANGED <<encoder, decoder>>
    /\ UNCHANGED <<node, isConnected, messageCallback, config, subscription,
                   shutdownCall, sendCall, sendResult, sendCalls, handled,
                   observerLog, verifiedLog, invalidLog>>
    /\ UNCHANGED <<torVars, signVars, utilVars>>

\* setupMessageSubscription() settles, part_000 lines 89-97: a rejection of
\* filter.subscribe is caught and logged there.  initialize() then sets
\* isConnected and returns true, lines 72-74.
SubscribeReturn(o) ==
    /\ initCall.pc = "subscribe"
    /\ initCall.subNode = NoNode => o = "ok"
    /\ subscription' =
          IF initCall.subNode # NoNode /\ o = "ok"
          THEN [subscription EXCEPT ![initCall.subNode] = initCall.subDecoder]
          ELSE subscription
    /\ isConnected' = TRUE
    /\ initCall' = [initCall EXCEPT !.pc = "idle"]
    /\ initResult' = "true"
    /\ lastOp' = "initialize"
    /\ UNCHANGED <<node, encoder, decoder, messageCallback, config,
                   nodeStatus, shutdownCall, sendCall, sendResult, sendCalls,
                   handled, observerLog, verifiedLog, invalidLog>>
    /\ UNCHANGED <<torVars, signVars, utilVars>>

\* ---- shutdown(), part_000 lines 198-206 --------------------------------
\* Entry: with a node, node.stop() is called and awaited; without one the
\* method runs to its end.
ShutdownBegin ==
    /\ shutdownCall.pc = "idle"
    /\ IF node # NoNode
       THEN /\ nodeStatus' = [nodeStatus EXCEPT ![node] = "stopping"]
            /\ shutdownCall' = [pc |-> "stop", node |-> node]
            /\ UNCHANGED <<isConnected, messageCallback, lastOp>>
       ELSE /\ isConnected' = FALSE
            /\ messageCallback' = NoCallback
            /\ lastOp' = "shutdown"
            /\ UNCHANGED <<nodeStatus, shutdownCall>>
    /\ initCall' = [initCall EXCEPT
                        !.shutdownSeen = @ \/ initCall.pc # "idle"]
    /\ UNCHANGED <<node, encoder, decoder, config, subscription,
                   sendCall, initResult, sendResult, sendCalls, handled,
                   observerLog, verifiedLog, invalidLog>>
    /\ UNCHANGED <<torVars, signVars, utilVars>>

\* node.stop() settles, the observer left registered.
StopReturnKeepsObserver ==
    /\ shutdownCall.pc = "stop"
    /\ nodeStatus' = [nodeStatus EXCEPT ![shutdownCall.node] = "stopped"]
    /\ node' = NoNode
    /\ isConnected' = FALSE
    /\ shutdownCall' = IdleShutdown
    /\ lastOp' = "shutdown"
    /\ UNCHANGED <<encoder, decoder, config, subscription, initCall,
                   sendCall, initResult, sendResult, sendCalls, handled,
                   observerLog, verifiedLog, invalidLog, messageCallback>>
    /\ UNCHANGED <<torVars, signVars, utilVars>>

\* node.stop() settles: lines 201-204.
StopReturn ==
    /\ shutdownCall.pc = "stop"
    /\ nodeStatus' = [nodeStatus EXCEPT ![shutdownCall.node] = "stopped"]
    /\ node' = NoNode
    /\ isConnected' = FALSE
    /\ messageCallback' = NoCallback
    /\ shutdownCall' = IdleShutdown
    /\ lastOp' = "shutdown"
    /\ UNCHANGED <<encoder, decoder, config, subscription, initCall,
                   sendCall, initResult, sendResult, sendCalls, handled,
                   observerLog, verifiedLog, invalidLog>>
    /\ UNCHANGED <<torVars, signVars, utilVars>>

\* ---- sendMessage(), part_000 lines 131-158 -----------------------------
\* The guard of line 132 without its isConnected conjunct.
SendGuardIgnoresConnected == node # NoNode /\ encoder # NullCodec

\* The guard of line 132.
SendGuard == node # NoNode /\ encoder # NullCodec /\ isConnected

\* Entry: rejected by the guard, or lightPush.send() is called and awaited.
SendMessageBegin ==
    /\ sendCall = "idle"
    /\ IF SendGuard
       THEN /\ sendCalls < MaxSends
            /\ sendCalls' = sendCalls + 1
            /\ sendCall' = "send"
            /\ UNCHANGED <<sendResult, lastOp>>
       ELSE /\ sendResult' = "false"
            /\ lastOp' = "sendMessage"
            /\ UNCHANGED <<sendCalls, sendCall>>
    /\ UNCHANGED <<node, encoder, decoder, isConnected, messageCallback,
                   config, nodeStatus, subscription, initCall, shutdownCall,
                   initResult, handled, observerLog, verifiedLog, invalidLog>>
    /\ UNCHANGED <<torVars, signVars, utilVars>>

\* A rejection of lightPush.send() taken as the loss of the connection.
SendReturnDropsConnection(o) ==
    /\ sendCall = "send"
    /\ sendCall' = "idle"
    /\ sendResult' = IF o = "ok" THEN "true" ELSE "false"
    /\ isConnected' = IF o = "ok" THEN isConnected ELSE FALSE
    /\ lastOp' = "sendMessage"
    /\ UNCHANGED <<node, encoder, decoder, messageCallback,
                   config, nodeStatus, subscription, initCall, shutdownCall,
                   initResult, sendCalls, handled, observerLog, verifiedLog,
                   invalidLog>>
    /\ UNCHANGED <<torVars, signVars, utilVars>>

\* lightPush.send() settles: true, or the rejection is caught and false.
SendReturn(o) ==
    /\ sendCall = "send"
    /\ sendCall' = "idle"
    /\ sendResult' = IF o = "ok" THEN "true" ELSE "false"
    /\ lastOp' = "sendMessage"
    /\ UNCHANGED <<node, encoder, decoder, isConnected, messageCallback,
                   config, nodeStatus, subscription, initCall, shutdownCall,
                   initResult, sendCalls, handled, observerLog, verifiedLog,
                   invalidLog>>
    /\ UNCHANGED <<torVars, signVars, utilVars>>

\* ---- setMessageCallback(), part_000 lines 163-165 ----------------------
SetMessageCallback(c) ==
    /\ messageCallback' = c
    /\ lastOp' = "setMessageCallback"
    /\ UNCHANGED <<node, encoder, decoder, isConnected, config, nodeStatus,
                   subscription, initCall, shutdownCall, sendCall, initResult,
                   sendResult, sendCalls, handled, observerLog, verifiedLog,
                   invalidLog>>
    /\ UNCHANGED <<torVars, signVars, utilVars>>

\* ---- setSymmetricKey(), part_000 lines 218-229 -------------------------
SetSymmetricKey(k) ==
    /\ config' = [config EXCEPT !.symKey = k]
    /\ encoder' = createEncoder(config.contentTopic, k)
    /\ decoder' = createDecoder(config.contentTopic, k)
    /\ lastOp' = "setSymmetricKey"
    /\ UNCHANGED <<node, isConnected, messageCallback, nodeStatus,
                   subscription, initCall, shutdownCall, sendCall, initResult,
                   sendResult, sendCalls, handled, observerLog, verifiedLog,
                   invalidLog>>
    /\ UNCHANGED <<torVars, signVars, utilVars>>

\* ---- inbound messages --------------------------------------------------
\* What JSON.parse(new TextDecoder().decode(payload)) makes of a payload:
\* "none" is a message without payload, "garbage" does not parse, "null"
\* parses to null (reading a property of it throws), "object" parses to a
\* value whose properties can be read.
PayloadKinds == {"none", "garbage", "null", "object"}

NumSigners == 2
Signers == 1..NumSigners
NoSignature == 0

\* A decoded message as the transport hands it over.  signer is the private
\* key the message was signed with, NoSignature when it carries no
\* signature; the decoder recovers signaturePublicKey from the signature.
InboundMessages == [payload : PayloadKinds, signer : {NoSignature} \cup Signers]

\* The message the observer is invoked with, part_000 lines 104-122: none
\* when the handler returns early or the decoding throws.
DecodesToMessage(m) == m.payload = "object"

\* Forwarding to the callback that was registered first.
ForwardTargetFirstRegistered(m) ==
    IF DecodesToMessage(m) /\ messageCallback # NoCallback
    THEN 1 ELSE NoCallback

\* The callback handleReceivedMessage invokes: lines 120-122.
ForwardTarget(m) ==
    IF DecodesToMessage(m) THEN messageCallback ELSE NoCallback

\* The body of the try block of handleReceivedMessage, lines 104-122: a
\* missing payload returns, JSON.parse throws on a payload that does not
\* parse, a property read throws on null, otherwise the callback is invoked
\* when one is set.
TryHandleReceivedMessage(m, callback) ==
    IF m.payload = "none"
    THEN [threw |-> FALSE, forwarded |-> FALSE]
    ELSE IF m.payload \in {"garbage", "null"}
    THEN [threw |-> TRUE, forwarded |-> FALSE]
    ELSE [threw |-> FALSE, forwarded |-> callback # NoCallback]

\* handleReceivedMessage without its catch block.
handleReceivedMessageUncaught(m, callback) ==
    TryHandleReceivedMessage(m, callback)

\* handleReceivedMessage(), lines 102-126: what is thrown is caught and
\* logged, lines 123-125.
handleReceivedMessage(m, callback) ==
    [TryHandleReceivedMessage(m, callback) EXCEPT !.threw = FALSE]

NoReceived == [payload |-> "nothing", threw |-> FALSE, forwarded |-> FALSE]

RecvInit == received = NoReceived

\* The transport invokes the subscription callback of node n, which calls
\* handleReceivedMessage, part_000 lines 89-91 and 102-126.
HandleReceivedMessage(n, m) ==
    /\ subscription[n] # NullCodec
    /\ nodeStatus[n] \in {"started", "stopping"}
    /\ handled < MaxDeliveries
    /\ handled' = handled + 1
    /\ observerLog' =
          IF ForwardTarget(m) # NoCallback
          THEN [observerLog EXCEPT ![ForwardTarget(m)] = Append(@, handled + 1)]
          ELSE observerLog
    /\ received' =
          [payload |-> m.payload,
           threw |-> handleReceivedMessage(m, messageCallback).threw,
           forwarded |-> handleReceivedMessage(m, messageCallback).forwarded]
    /\ UNCHANGED <<node, encoder, decoder, isConnected, messageCallback,
                   config, nodeStatus, subscription, initCall, shutdownCall,
                   sendCall, initResult, sendResult, sendCalls, lastOp,
                   verifiedLog, invalidLog>>
    /\ UNCHANGED <<torVars, signVars, hexVars, keyVars, codecVars, hookVars>>

\* ---- signed-message callback, part_002 ---------------------------------
\* generateSigningPublicKey(), part_002 lines 34-36: the public key of a
\* private key.
generateSigningPublicKey(privateKey) == <<"public", privateKey>>

PublicKeys == {generateSigningPublicKey(k) : k \in Signers}

\* The value of signaturePublicKey on a message without a signature.
NoKey == <<>>

\* The key createBobCallbackForAlice() verifies against, line 161.
ExpectedPublicKey == generateSigningPublicKey(1)

\* wakuMessage.signaturePublicKey, line 62: the key the decoder recovered
\* from the signature.
signaturePublicKey(m) ==
    IF m.signer = NoSignature
    THEN NoKey
    ELSE generateSigningPublicKey(m.signer)

\* DecodedMessage.verifySignature of the transport library: the recovered
\* signer key is compared with the given key.
verifySignature(m, publicKey) ==
    signaturePublicKey(m) # NoKey /\ signaturePublicKey(m) = publicKey

\* An expectedPublicKey argument that is no byte array.
MalformedKey == <<"malformed", 0>>

ExpectedKeys == PublicKeys \cup {MalformedKey}

\* wakuMessage.verifySignature(expectedPublicKey), line 72, raises when the
\* comparison of the recovered key with the argument raises.
verifySignatureRaises(m, publicKey) == publicKey = MalformedKey

\* What a call that let the exception through would leave its caller with.
Thrown == [isValid |-> FALSE, message |-> "thrown"]

\* A presence check that passes every message.
HasSignatureAlways(m) == TRUE

\* The presence check of line 64.
HasSignature(m) == m.signer # NoSignature /\ signaturePublicKey(m) # NoKey

\* verifyMessageSignature verifying against the key the message carries.
verifyMessageSignatureOwnKey(m, expectedPublicKey) ==
    IF ~HasSignature(m)
    THEN [isValid |-> FALSE, message |-> "No signature found in message"]
    ELSE IF verifySignature(m, signaturePublicKey(m))
         THEN [isValid |-> TRUE,
               message |-> "Message signature verified successfully"]
         ELSE [isValid |-> FALSE,
               message |-> "Message signature verification failed"]

\* verifyMessageSignature without its catch block.
verifyMessageSignatureUncaught(m, expectedPublicKey) ==
    IF ~HasSignature(m)
    THEN [isValid |-> FALSE, message |-> "No signature found in message"]
    ELSE IF verifySignatureRaises(m, expectedPublicKey)
    THEN Thrown
    ELSE IF verifySignature(m, expectedPublicKey)
         THEN [isValid |-> TRUE,
               message |-> "Message signature verified successfully"]
         ELSE [isValid |-> FALSE,
               message |-> "Message signature verification failed"]

\* part_002 lines 58-87; the catch block of lines 80-86 turns an exception
\* of verifySignature into the verification-error result.
verifyMessageSignature(m, expectedPublicKey) ==
    IF ~HasSignature(m)
    THEN [isValid |-> FALSE, message |-> "No signature found in message"]
    ELSE IF verifySignatureRaises(m, expectedPublicKey)
    THEN [isValid |-> FALSE, message |-> "Signature verification error"]
    ELSE IF verifySignature(m, expectedPublicKey)
         THEN [isValid |-> TRUE,
               message |-> "Message signature verified successfully"]
         ELSE [isValid |-> FALSE,
               message |-> "Message signature verification failed"]

\* onMessageVerified and onMessageInvalid tell which callbacks the handler
\* that ran the verification was built with; both FALSE for a direct call.
NoVerification ==
    [message |-> [payload |-> "none", signer |-> NoSignature],
     expectedPublicKey |-> NoKey,
     result |-> [isValid |-> FALSE, message |-> ""],
     onMessageVerified |-> FALSE,
     onMessageInvalid |-> FALSE]

SignInit == verification = NoVerification

\* verifyMessageSignature() called by an application, part_002 lines 58-87.
VerifyMessageSignature(m, expectedPublicKey) ==
    /\ verification' = [message |-> m,
                        expectedPublicKey |-> expectedPublicKey,
                        result |-> verifyMessageSignature(m, expectedPublicKey),
                        onMessageVerified |-> FALSE,
                        onMessageInvalid |-> FALSE]
    /\ UNCHANGED <<wakuVars, torVars, utilVars>>

\* The handler invoking onMessageInvalid for every message and
\* onMessageVerified for the valid ones.
SignedMessageCallbackAlwaysInvalid(m, onMessageVerified, onMessageInvalid) ==
    /\ handled < MaxDeliveries
    /\ handled' = handled + 1
    /\ LET verificationResult == verifyMessageSignature(m, ExpectedPublicKey) IN
       /\ verification' = [message |-> m,
                           expectedPublicKey |-> ExpectedPublicKey,
                           result |-> verificationResult,
                           onMessageVerified |-> onMessageVerified,
                           onMessageInvalid |-> onMessageInvalid]
       /\ verifiedLog' =
             IF verificationResult.isValid /\ onMessageVerified
             THEN verifiedLog \cup {handled + 1} ELSE verifiedLog
       /\ invalidLog' =
             IF onMessageInvalid
             THEN invalidLog \cup {<<handled + 1, verificationResult.message>>}
             ELSE invalidLog
    /\ UNCHANGED <<node, encoder, decoder, isConnected, messageCallback,
                   config, nodeStatus, subscription, initCall, shutdownCall,
                   sendCall, initResult, sendResult, sendCalls, observerLog,
                   lastOp>>
    /\ UNCHANGED <<torVars, utilVars>>

\* The handler createSignedMessageCallback returns, invoked by the transport
\* with a delivered message: part_002 lines 101-111.  onMessageVerified and
\* onMessageInvalid tell whether the optional callback was supplied, lines
\* 98-99; an omitted callback is skipped by the ?. of lines 106 and 109.
SignedMessageCallback(m, onMessageVerified, onMessageInvalid) ==
    /\ handled < MaxDeliveries
    /\ handled' = handled + 1
    /\ LET verificationResult == verifyMessageSignature(m, ExpectedPublicKey) IN
       /\ verification' = [message |-> m,
                           expectedPublicKey |-> ExpectedPublicKey,
                           result |-> verificationResult,
                           onMessageVerified |-> onMessageVerified,
                           onMessageInvalid |-> onMessageInvalid]
       /\ IF verificationResult.isValid
          THEN /\ verifiedLog' = IF onMessageVerified
                                 THEN verifiedLog \cup {handled + 1}
                                 ELSE verifiedLog
               /\ UNCHANGED invalidLog
          ELSE /\ invalidLog' =
                     IF onMessageInvalid
                     THEN invalidLog \cup
                              {<<handled + 1, verificationResult.message>>}
                     ELSE invalidLog
               /\ UNCHANGED verifiedLog
    /\ UNCHANGED <<node, encoder, decoder, isConnected, messageCallback,
                   config, nodeStatus, subscription, initCall, shutdownCall,
                   sendCall, initResult, sendResult, sendCalls, observerLog,
                   lastOp>>
    /\ UNCHANGED <<torVars, utilVars>>

\* Deliveries the handler of createSignedMessageCallback has reported.
sigChecked == verifiedLog \cup {x[1] : x \in invalidLog}

\* ------------------------------------------------- TorIntegrationManager
\* What a probe (checkTorRunning, testSocksConnection) can settle to.  The
\* probes of part_005 lines 301-328 are timers that resolve true; a probe of
\* a real proxy also resolves false or rejects, which initialize() handles
\* at lines 277, 284 and 292.
ProbeOutcomes == {"true", "false", "throw"}

DefaultRPCs == {"ethereum-mainnet", "polygon", "arbitrum"}

\* The timeout setupDefaultRPCs gives every endpoint, lines 559, 566, 573.
DefaultTimeout == 30000

\* The delay after which simulateRPCCall resolves, line 498.
SimulatedLatency == 1000

\* Endpoints a caller registers itself with addPrivateRPC, and the timeouts
\* it gives them.
CustomRPCs == {"custom"}
Timeouts == {500, DefaultTimeout}

\* The ids generateServiceId() can draw, and the bound on created records.
NumServiceIds == 2
MaxServices == 2
MaxRpcCalls == 1
ServiceIds == 1..NumServiceIds
NoService == 0

RpcNames == DefaultRPCs \cup CustomRPCs \cup {"unknown"}

IdleRpc == [pc |-> "idle", rpcName |-> "", timeout |-> 0]

\* Map.keys(): the names of the entries, in insertion order.
RegisteredNames(configs) == [i \in DOMAIN configs |-> configs[i].name]

\* Map.has / Map.get, line 468.
HasRPC(configs, name) == \E i \in DOMAIN configs : configs[i].name = name

\* What Map.get gives for a name that is not registered.
NoConfig == [name |-> "", timeout |-> 0]

GetRPC(configs, name) ==
    IF HasRPC(configs, name)
    THEN configs[CHOOSE i \in DOMAIN configs : configs[i].name = name]
    ELSE NoConfig

\* addPrivateRPC as an array push: an entry is appended whether or not the
\* name is registered.
addPrivateRPCAppends(configs, name, timeout) ==
    Append(configs, [name |-> name, timeout |-> timeout])

\* addPrivateRPC(), lines 450-453: Map.set replaces the entry of a registered
\* name in place and appends the entry of a new one.
addPrivateRPC(configs, name, timeout) ==
    IF HasRPC(configs, name)
    THEN [i \in DOMAIN configs |->
             IF configs[i].name = name
             THEN [name |-> name, timeout |-> timeout]
             ELSE configs[i]]
    ELSE Append(configs, [name |-> name, timeout |-> timeout])

\* checkTorRunning and testSocksConnection hold what the probe of this call
\* settled to; checkRuns and socksRuns count the calls of each probe;
\* shutdownSeen is history: shutdown() ran while this call awaited a probe.
IdleTor == [pc |-> "idle",
            checkTorRunning |-> "not run", testSocksConnection |-> "not run",
            checkRuns |-> 0, socksRuns |-> 0, shutdownSeen |-> FALSE]

TorInit ==
    /\ torIsConnected = FALSE
    /\ isInitialized = FALSE
    /\ rpcConfigs = <<>>
    /\ torCall = IdleTor
    /\ torResult = "none"
    /\ torLastOp = "none"
    /\ services = [id \in ServiceIds |-> NoService]
    /\ servicesCreated = 0
    /\ onionResult = "none"
    /\ rpcCall = IdleRpc
    /\ rpcResult = "none"
    /\ rpcDispatched = 0

\* TorIntegrationManager.initialize() enters TorProxyManager.initialize(),
\* which calls checkTorRunning(): part_005 lines 529-534 and 271-276.
TorInitializeBegin ==
    /\ torCall.pc = "idle"
    /\ torCall' = [IdleTor EXCEPT !.pc = "checkTorRunning",
                                  !.checkTorRunning = "pending",
                                  !.checkRuns = 1]
    /\ UNCHANGED <<torIsConnected, isInitialized, rpcConfigs, torResult,
                   torLastOp, onionVars, rpcVars>>
    /\ UNCHANGED <<wakuVars, signVars, utilVars>>

\* The proxy manager's initialize() returned false: the manager throws,
\* catches and returns false, part_005 lines 535-537 and 545-548.
TorInitializeFails(probe, o) ==
    /\ torCall' = [torCall EXCEPT !.pc = "idle", ![probe] = o]
    /\ torResult' = "false"
    /\ torLastOp' = "initialize"
    /\ UNCHANGED <<torIsConnected, isInitialized, rpcConfigs, onionVars,
                   rpcVars>>
    /\ UNCHANGED <<wakuVars, signVars, utilVars>>

\* A probe that only fails by rejecting.
ProbePassedUnlessThrown(o) == o # "throw"

\* The tests of lines 277 and 284 on what a probe resolved to.
ProbePassed(o) == o = "true"

\* checkTorRunning() settles: lines 276-283.
CheckTorRunningReturn(o) ==
    /\ torCall.pc = "checkTorRunning"
    /\ IF ProbePassed(o)
       THEN /\ torCall' = [torCall EXCEPT
                               !.pc = "testSocksConnection",
                               !.checkTorRunning = o,
                               !.testSocksConnection = "pending",
                               !.socksRuns = torCall.socksRuns + 1]
            /\ UNCHANGED <<torIsConnected, isInitialized, rpcConfigs,
                           torResult, torLastOp, onionVars, rpcVars,
                           wakuVars, signVars, utilVars>>
       ELSE TorInitializeFails("checkTorRunning", o)

\* testSocksConnection() settles: lines 283-291.
TestSocksConnectionReturn(o) ==
    /\ torCall.pc = "testSocksConnection"
    /\ IF ProbePassed(o)
       THEN /\ torIsConnected' = TRUE
            /\ torCall' = [torCall EXCEPT !.pc = "proxyInitialized",
                                          !.testSocksConnection = o]
            /\ UNCHANGED <<isInitialized, rpcConfigs, torResult, torLastOp,
                           onionVars, rpcVars, wakuVars,
                           signVars, utilVars>>
       ELSE TorInitializeFails("testSocksConnection", o)

\* setupDefaultRPCs(), lines 554-575: addPrivateRPC sets each name.
setupDefaultRPCs(configs) ==
    addPrivateRPC(
        addPrivateRPC(
            addPrivateRPC(configs, "ethereum-mainnet", DefaultTimeout),
            "polygon", DefaultTimeout),
        "arbitrum", DefaultTimeout)

\* The manager resumes after the proxy manager returned true: lines 539-544.
TorInitializeFinish ==
    /\ torCall.pc = "proxyInitialized"
    /\ rpcConfigs' = setupDefaultRPCs(rpcConfigs)
    /\ isInitialized' = TRUE
    /\ torCall' = [torCall EXCEPT !.pc = "idle"]
    /\ torResult' = "true"
    /\ torLastOp' = "initialize"
    /\ UNCHANGED <<torIsConnected, onionVars, rpcVars>>
    /\ UNCHANGED <<wakuVars, signVars, utilVars>>

\* TorIntegrationManager.shutdown(), lines 626-630, with
\* TorProxyManager.disconnect(), lines 347-350.
TorShutdown ==
    /\ torIsConnected' = FALSE
    /\ isInitialized' = FALSE
    /\ torLastOp' = "shutdown"
    /\ torCall' = [torCall EXCEPT
                       !.shutdownSeen =
                           @ \/ torCall.pc \in {"checkTorRunning",
                                                "testSocksConnection"}]
    /\ UNCHANGED <<rpcConfigs, torResult, onionVars, rpcVars>>
    /\ UNCHANGED <<wakuVars, signVars, utilVars>>

\* getActiveOnionServices(), lines 612-614 and 423-425: the ids of the
\* records the registry holds.
getActiveOnionServices == {id \in ServiceIds : services[id] # NoService}

\* createSafeCastOnionService(), part_005 lines 580-586, with
\* OnionServiceManager.createOnionService(), lines 363-385:
\* generateServiceId() draws the id at random, services.set stores the record.
CreateSafeCastOnionService(id) ==
    /\ IF ~isInitialized
       THEN /\ onionResult' = "not initialized"
            /\ UNCHANGED <<services, servicesCreated>>
       ELSE /\ servicesCreated < MaxServices
            /\ servicesCreated' = servicesCreated + 1
            /\ services' = [services EXCEPT ![id] = servicesCreated + 1]
            /\ onionResult' = "created"
    /\ torLastOp' = "createOnionService"
    /\ UNCHANGED <<proxyVars, rpcVars>>
    /\ UNCHANGED <<wakuVars, signVars, utilVars>>

\* A lookup that finds every name.
EndpointRegisteredAlways(rpcName) == TRUE

\* The lookup of lines 468-469.
EndpointRegistered(rpcName) == HasRPC(rpcConfigs, rpcName)

\* PrivateRPCManager.addPrivateRPC() called by the owner of the manager,
\* lines 450-453.
AddPrivateRPC(name, timeout) ==
    /\ rpcConfigs' = addPrivateRPC(rpcConfigs, name, timeout)
    /\ torLastOp' = "addPrivateRPC"
    /\ UNCHANGED <<torIsConnected, isInitialized, torCall, torResult,
                   onionVars, rpcVars>>
    /\ UNCHANGED <<wakuVars, signVars, utilVars>>

\* makePrivateCall() looking the endpoint up before the connectivity checks.
MakePrivateCallBeginLookupFirst(rpcName) ==
    /\ rpcCall.pc = "idle"
    /\ IF ~EndpointRegistered(rpcName)
       THEN /\ rpcResult' = "not found"
            /\ torLastOp' = "makePrivateCall"
            /\ UNCHANGED <<rpcCall, rpcDispatched>>
       ELSE IF ~isInitialized
       THEN /\ rpcResult' = "not initialized"
            /\ torLastOp' = "makePrivateCall"
            /\ UNCHANGED <<rpcCall, rpcDispatched>>
       ELSE IF ~torIsConnected
       THEN /\ rpcResult' = "not connected"
            /\ torLastOp' = "makePrivateCall"
            /\ UNCHANGED <<rpcCall, rpcDispatched>>
       ELSE /\ rpcDispatched < MaxRpcCalls
            /\ rpcDispatched' = rpcDispatched + 1
            /\ rpcCall' = [pc |-> "simulateRPCCall", rpcName |-> rpcName,
                           timeout |-> GetRPC(rpcConfigs, rpcName).timeout]
            /\ UNCHANGED <<rpcResult, torLastOp>>
    /\ UNCHANGED <<proxyVars, onionVars>>
    /\ UNCHANGED <<wakuVars, signVars, utilVars>>

\* makePrivateCall(), part_005 lines 591-597, with
\* PrivateRPCManager.makePrivateRPCCall(), lines 458-477: the checks, then
\* simulateRPCCall() is called and awaited.
MakePrivateCallBegin(rpcName) ==
    /\ rpcCall.pc = "idle"
    /\ IF ~isInitialized
       THEN /\ rpcResult' = "not initialized"
            /\ torLastOp' = "makePrivateCall"
            /\ UNCHANGED <<rpcCall, rpcDispatched>>
       ELSE IF ~torIsConnected
       THEN /\ rpcResult' = "not connected"
            /\ torLastOp' = "makePrivateCall"
            /\ UNCHANGED <<rpcCall, rpcDispatched>>
       ELSE IF ~EndpointRegistered(rpcName)
       THEN /\ rpcResult' = "not found"
            /\ torLastOp' = "makePrivateCall"
            /\ UNCHANGED <<rpcCall, rpcDispatched>>
       ELSE /\ rpcDispatched < MaxRpcCalls
            /\ rpcDispatched' = rpcDispatched + 1
            /\ rpcCall' = [pc |-> "simulateRPCCall", rpcName |-> rpcName,
                           timeout |-> GetRPC(rpcConfigs, rpcName).timeout]
            /\ UNCHANGED <<rpcResult, torLastOp>>
    /\ UNCHANGED <<proxyVars, onionVars>>
    /\ UNCHANGED <<wakuVars, signVars, utilVars>>

\* The resolution of simulateRPCCall() taken as the loss of the proxy.
SimulateRPCCallReturnDisconnects ==
    /\ rpcCall.pc = "simulateRPCCall"
    /\ rpcCall' = [rpcCall EXCEPT !.pc = "idle"]
    /\ rpcResult' = "result"
    /\ torLastOp' = "makePrivateCall"
    /\ torIsConnected' = FALSE
    /\ UNCHANGED <<isInitialized, rpcConfigs, torCall, torResult, onionVars,
                   rpcDispatched>>
    /\ UNCHANGED <<wakuVars, signVars, utilVars>>

\* simulateRPCCall() resolves after SimulatedLatency, lines 477-480 and
\* 490-500; the timeout of the endpoint is not consulted.
SimulateRPCCallReturn ==
    /\ rpcCall.pc = "simulateRPCCall"
    /\ rpcCall' = [rpcCall EXCEPT !.pc = "idle"]
    /\ rpcResult' = "result"
    /\ torLastOp' = "makePrivateCall"
    /\ UNCHANGED <<proxyVars, onionVars, rpcDispatched>>
    /\ UNCHANGED <<wakuVars, signVars, utilVars>>

\* No caller-invoked operation of the manager is in flight.
TorCallerIdle == torCall.pc = "idle" /\ rpcCall.pc = "idle"

\* ---------------------------------------------------------- specifications
\* ---- hex conversion, keyManagement.ts lines 33-44 ---------------------
MaxBytesLen == 2

\* Byte values at the edges of the two hex digits.
SampleBytes == {0, 9, 10, 15, 16, 160, 255}

RECURSIVE SeqsUpTo(_, _)
SeqsUpTo(S, n) ==
    IF n = 0
    THEN {<<>>}
    ELSE LET shorter == SeqsUpTo(S, n - 1) IN
         shorter \cup {Append(q, x) : q \in shorter, x \in S}

ByteSeqs == SeqsUpTo(SampleBytes, MaxBytesLen)

HexDigits == <<"0", "1", "2", "3", "4", "5", "6", "7",
               "8", "9", "a", "b", "c", "d", "e", "f">>

DigitValue(c) == CHOOSE v \in 0..15 : HexDigits[v + 1] = c

\* A conversion that writes a byte below 16 as one digit.
bytesToHexUnpadded(bytes) ==
    LET digits(b) == IF b < 16
                     THEN <<HexDigits[b + 1]>>
                     ELSE <<HexDigits[(b \div 16) + 1], HexDigits[(b % 16) + 1]>>
        F[i \in 0..Len(bytes)] ==
            IF i = 0 THEN <<>> ELSE F[i - 1] \o digits(bytes[i])
    IN F[Len(bytes)]

\* bytesToHex of @waku/utils/bytes: two lower-case digits per byte.
bytesToHex(bytes) ==
    [i \in 1..(2 * Len(bytes)) |->
        LET b == bytes[(i + 1) \div 2] IN
        IF i % 2 = 1
        THEN HexDigits[(b \div 16) + 1]
        ELSE HexDigits[(b % 16) + 1]]

\* hexToBytes of @waku/utils/bytes: one byte per pair of digits.
hexToBytes(hex) ==
    [i \in 1..(Len(hex) \div 2) |->
        16 * DigitValue(hex[2 * i - 1]) + DigitValue(hex[2 * i])]

\* keyManagement.ts lines 33-35.
bytesToHexString(bytes) == bytesToHex(bytes)

\* keyManagement.ts lines 42-44.
hexStringToBytes(hexString) == hexToBytes(hexString)

NoHexCall == [bytes |-> <<>>, hex |-> <<>>, restored |-> <<>>, pc |-> "none"]

HexInit == hexCall = NoHexCall

\* A key is converted for storage.
BytesToHexString(bytes) ==
    /\ hexCall' = [bytes |-> bytes, hex |-> bytesToHexString(bytes),
                   restored |-> <<>>, pc |-> "stored"]
    /\ UNCHANGED <<wakuVars, torVars, signVars, keyVars, codecVars,
                 recvVars, hookVars>>

\* The stored string is converted back.
HexStringToBytes ==
    /\ hexCall.pc = "stored"
    /\ hexCall' = [hexCall EXCEPT !.restored = hexStringToBytes(hexCall.hex),
                                  !.pc = "restored"]
    /\ UNCHANGED <<wakuVars, torVars, signVars, keyVars, codecVars,
                 recvVars, hookVars>>

HexNext ==
    \/ \E bytes \in ByteSeqs : BytesToHexString(bytes)
    \/ HexStringToBytes

\* ---- key storage, keyManagement.ts lines 121-294 -----------------------
NumBundles == 2

\* A key bundle (KeyStorage) stands for the character its JSON text carries
\* between the braces; NoBundle is null.
Bundles == 1..NumBundles
NoBundle == 0

\* Characters are codes of CharBits bits.
CharBits == 3
OpenBrace == 6
CloseBrace == 7

RECURSIVE XorBits(_, _, _)
XorBits(a, b, n) ==
    IF n = 0
    THEN 0
    ELSE ((a + b) % 2) + 2 * XorBits(a \div 2, b \div 2, n - 1)

\* The ^ of lines 236 and 253.
Xor(a, b) == XorBits(a, b, CharBits)

\* JSON.stringify of a bundle, lines 134 and 265.
JSONstringify(keys) == <<OpenBrace, keys, CloseBrace>>

\* JSON.parse, lines 150 and 284: the bundle, or a SyntaxError.
JSONparse(chars) ==
    IF /\ Len(chars) = 3
       /\ chars[1] = OpenBrace
       /\ chars[3] = CloseBrace
       /\ chars[2] \in Bundles
    THEN [threw |-> FALSE, value |-> chars[2]]
    ELSE [threw |-> TRUE, value |-> NoBundle]

\* The encryptionKey strings of the SecureKeyManager instances, line 214.
EncryptionKeys == {<<1, 2>>, <<2, 1>>, <<3>>}

\* A storage item: absent (getItem gives null), or a string that is Base64
\* text or other text.
NoItem == [present |-> FALSE, base64 |-> FALSE, chars |-> <<>>]

\* A stored string that no manager wrote.
CorruptItem == [present |-> TRUE, base64 |-> FALSE, chars |-> <<OpenBrace>>]

Managers ==
    {[kind |-> "plain", encryptionKey |-> <<>>]} \cup
    {[kind |-> "secure", encryptionKey |-> k] : k \in EncryptionKeys}

\* The loop of lines 233-238 and 250-255.
XorMask(data, key) ==
    [i \in 1..Len(data) |-> Xor(data[i], key[((i - 1) % Len(key)) + 1])]

\* simpleEncrypt(), lines 232-240: the masked characters, Base64-encoded.
simpleEncrypt(data, key) ==
    [present |-> TRUE, base64 |-> TRUE, chars |-> XorMask(data, key)]

\* simpleDecrypt with the mask shifted by one character.
simpleDecryptShifted(item, key) ==
    IF item.base64
    THEN [threw |-> FALSE,
          value |-> [i \in 1..Len(item.chars) |->
                        Xor(item.chars[i], key[(i % Len(key)) + 1])]]
    ELSE [threw |-> TRUE, value |-> <<>>]

\* simpleDecrypt(), lines 248-257: atob throws on text that is not Base64.
simpleDecrypt(item, key) ==
    IF item.base64
    THEN [threw |-> FALSE, value |-> XorMask(item.chars, key)]
    ELSE [threw |-> TRUE, value |-> <<>>]

\* What saveKeys hands to localStorage.setItem, lines 134 and 265-267.
Persisted(mgr, keys) ==
    IF mgr.kind = "secure"
    THEN simpleEncrypt(JSONstringify(keys), mgr.encryptionKey)
    ELSE [present |-> TRUE, base64 |-> FALSE, chars |-> JSONstringify(keys)]

\* The body of the try block of loadKeys, lines 148-154 and 281-288.
TryLoadKeys(mgr, item) ==
    IF ~item.present
    THEN [threw |-> FALSE, value |-> NoBundle]
    ELSE IF mgr.kind = "secure"
    THEN LET decrypted == simpleDecrypt(item, mgr.encryptionKey) IN
         IF decrypted.threw
         THEN [threw |-> TRUE, value |-> NoBundle]
         ELSE JSONparse(decrypted.value)
    ELSE IF item.base64
    THEN [threw |-> TRUE, value |-> NoBundle]
    ELSE JSONparse(item.chars)

\* loadKeys without its catch block.
loadKeysUncaught(mgr, item) == TryLoadKeys(mgr, item)

\* loadKeys(), lines 146-159 and 279-293: whatever is thrown is caught and
\* null returned.
loadKeys(mgr, item) ==
    IF TryLoadKeys(mgr, item).threw
    THEN [threw |-> FALSE, value |-> NoBundle]
    ELSE TryLoadKeys(mgr, item)

\* loadOrGenerateKeys(), lines 195-203, with generateAndSaveKeys(), lines
\* 185-189: generated is the bundle generateCompleteKeySet draws, o the
\* outcome of localStorage.setItem.
loadOrGenerateKeys(mgr, item, generated, o) ==
    LET existingKeys == loadKeys(mgr, item) IN
    IF existingKeys.threw
    THEN [threw |-> TRUE, value |-> NoBundle, storage |-> item,
          saved |-> FALSE]
    ELSE IF existingKeys.value # NoBundle
    THEN [threw |-> FALSE, value |-> existingKeys.value, storage |-> item,
          saved |-> FALSE]
    ELSE IF o = "ok"
    THEN [threw |-> FALSE, value |-> generated,
          storage |-> Persisted(mgr, generated), saved |-> TRUE]
    ELSE [threw |-> TRUE, value |-> NoBundle, storage |-> item,
          saved |-> FALSE]

NoManager == [kind |-> "none", encryptionKey |-> <<>>]

\* History: the manager and bundle of the save that wrote the item now
\* stored, NoSaved when no manager wrote it.
NoSaved == [manager |-> NoManager, keys |-> NoBundle]

NoKeyCall == [op |-> "none", after |-> "none", manager |-> NoManager,
              keys |-> NoBundle, value |-> NoBundle, has |-> FALSE,
              threw |-> FALSE, saved |-> NoSaved]

KeyInit == storage = NoItem /\ keyCall = NoKeyCall

\* saveKeys(), lines 132-140 and 263-273; o is the outcome of setItem.
SaveKeys(mgr, keys, o) ==
    /\ storage' = IF o = "ok" THEN Persisted(mgr, keys) ELSE storage
    /\ keyCall' = [op |-> "saveKeys", after |-> keyCall.op, manager |-> mgr,
                   keys |-> keys, value |-> NoBundle, has |-> FALSE,
                   threw |-> (o = "throw"),
                   saved |-> IF o = "ok"
                             THEN [manager |-> mgr, keys |-> keys]
                             ELSE keyCall.saved]
    /\ UNCHANGED <<wakuVars, torVars, signVars, hexVars, codecVars,
                 recvVars, hookVars>>

LoadKeys(mgr) ==
    /\ keyCall' = [op |-> "loadKeys", after |-> keyCall.op, manager |-> mgr,
                   keys |-> NoBundle, value |-> loadKeys(mgr, storage).value,
                   has |-> FALSE, threw |-> loadKeys(mgr, storage).threw,
                   saved |-> keyCall.saved]
    /\ UNCHANGED storage
    /\ UNCHANGED <<wakuVars, torVars, signVars, hexVars, codecVars,
                 recvVars, hookVars>>

\* clearKeys(), lines 164-171.
ClearKeys(mgr) ==
    /\ storage' = NoItem
    /\ keyCall' = [op |-> "clearKeys", after |-> keyCall.op, manager |-> mgr,
                   keys |-> NoBundle, value |-> NoBundle, has |-> FALSE,
                   threw |-> FALSE, saved |-> NoSaved]
    /\ UNCHANGED <<wakuVars, torVars, signVars, hexVars, codecVars,
                 recvVars, hookVars>>

\* hasKeys(), lines 177-179.
HasKeys(mgr) ==
    /\ keyCall' = [op |-> "hasKeys", after |-> keyCall.op, manager |-> mgr,
                   keys |-> NoBundle, value |-> NoBundle,
                   has |-> storage.present, threw |-> FALSE,
                   saved |-> keyCall.saved]
    /\ UNCHANGED storage
    /\ UNCHANGED <<wakuVars, torVars, signVars, hexVars, codecVars,
                 recvVars, hookVars>>

LoadOrGenerateKeys(mgr, generated, o) ==
    LET r == loadOrGenerateKeys(mgr, storage, generated, o) IN
    /\ storage' = r.storage
    /\ keyCall' = [op |-> "loadOrGenerateKeys", after |-> keyCall.op,
                   manager |-> mgr, keys |-> NoBundle, value |-> r.value,
                   has |-> FALSE, threw |-> r.threw,
                   saved |-> IF r.saved
                             THEN [manager |-> mgr, keys |-> r.value]
                             ELSE keyCall.saved]
    /\ UNCHANGED <<wakuVars, torVars, signVars, hexVars, codecVars,
                 recvVars, hookVars>>

\* Something other than a manager writes the item: the stored string is
\* corrupt.
CorruptStorage ==
    /\ storage.present
    /\ storage' = CorruptItem
    /\ keyCall' = [op |-> "corrupt", after |-> keyCall.op,
                   manager |-> NoManager, keys |-> NoBundle,
                   value |-> NoBundle, has |-> FALSE, threw |-> FALSE,
                   saved |-> NoSaved]
    /\ UNCHANGED <<wakuVars, torVars, signVars, hexVars, codecVars,
                 recvVars, hookVars>>

KeyNext ==
    \/ \E mgr \in Managers, keys \in Bundles, o \in Outcomes :
          SaveKeys(mgr, keys, o)
    \/ \E mgr \in Managers : LoadKeys(mgr)
    \/ \E mgr \in Managers : ClearKeys(mgr)
    \/ \E mgr \in Managers : HasKeys(mgr)
    \/ \E mgr \in Managers, generated \in Bundles, o \in Outcomes :
          LoadOrGenerateKeys(mgr, generated, o)
    \/ CorruptStorage

\* ---- encryption utilities, part_000 lines 341-422, part_001 lines 1-105 --
NumPlaintexts == 2
NumCodecKeys == 2

Plaintexts == 1..NumPlaintexts
NoPlaintext == 0

\* Key material: symmetric keys and private keys, and the public key of a
\* private key.
SymKeys == {<<"sym", k>> : k \in 1..NumCodecKeys}
PrivateKeys == {<<"private", k>> : k \in 1..NumCodecKeys}
NoCodecKey == <<"undefined", 0>>

\* getPublicKey, part_001 lines 35-37.
generatePublicKeyFromPrivate(privateKey) == <<"public", privateKey[2]>>

\* The default routingInfo of part_000 lines 379-383 and 415-419, part_001
\* lines 62-66 and 98-102.
DefaultRoutingInfo == <<"routing", 0, 0, "/waku/2/default-waku/proto">>

\* The repository calls createDecoder of @waku/message-encryption as
\* createDecoder(contentTopic, key) (part_000 lines 67 and 227, part_003 lines
\* 20 and 50) and as createDecoder(contentTopic, routingInfo, key) (part_000
\* line 421, part_001 line 104). The installed release decides which
\* parameter is the key: the second ("keyed") or the third ("routed").
LibraryAPIs == {"keyed", "routed"}

\* createEncoder of @waku/message-encryption/symmetric and /ecies: the key
\* is read from the options object.
messageEncryptionCreateEncoder(mode, topic, key, routingInfo) ==
    [mode |-> mode, contentTopic |-> topic, key |-> key]

\* createDecoder of @waku/message-encryption/symmetric and /ecies, called
\* with the argument list args.
messageEncryptionCreateDecoder(mode, args) ==
    [mode |-> mode,
     contentTopic |-> args[1],
     key |-> IF codecLib = "keyed"
             THEN args[2]
             ELSE IF Len(args) >= 3 THEN args[3] ELSE NoCodecKey]

\* createSymmetricEncoder(), part_000 lines 375-385.
createSymmetricEncoder(topic, symKey) ==
    messageEncryptionCreateEncoder("symmetric", topic, symKey,
                                   DefaultRoutingInfo)

\* createSymmetricDecoder handing a key of its own to the library.
createSymmetricDecoderOwnKey(topic, symKey) ==
    messageEncryptionCreateDecoder("symmetric",
        <<topic, <<"sym", 1>>, <<"sym", 1>>>>)

\* createSymmetricDecoder(), part_000 lines 412-422.
createSymmetricDecoder(topic, symKey) ==
    messageEncryptionCreateDecoder("symmetric",
        <<topic, DefaultRoutingInfo, symKey>>)

\* createECIESEncoder(), part_001 lines 58-68.
createECIESEncoder(topic, publicKey) ==
    messageEncryptionCreateEncoder("ecies", topic, publicKey,
                                   DefaultRoutingInfo)

\* createECIESDecoder(), part_001 lines 95-105.
createECIESDecoder(topic, privateKey) ==
    messageEncryptionCreateDecoder("ecies",
        <<topic, DefaultRoutingInfo, privateKey>>)

\* An encrypted message: the key it was encrypted to, the payload inside,
\* and whether its bytes are still the ones the encoder produced.
NoBlob == [mode |-> "none", lock |-> NoCodecKey, plaintext |-> NoPlaintext,
           intact |-> TRUE]

\* encoder.toWire(): authenticated encryption under the encoder's key.
toWire(enc, plaintext) ==
    [mode |-> enc.mode, lock |-> enc.key, plaintext |-> plaintext,
     intact |-> TRUE]

\* The decoder's key decrypts what was encrypted to lock.
Opens(dec, lock) ==
    IF dec.mode = "symmetric"
    THEN dec.key = lock
    ELSE /\ dec.key[1] = "private"
         /\ generatePublicKeyFromPrivate(dec.key) = lock

\* decoder.fromWireToProtoObj() and fromProtoObj(): the payload, or nothing
\* when authentication or decryption fails.
fromWire(dec, blob) ==
    IF blob.intact /\ dec.mode = blob.mode /\ Opens(dec, blob.lock)
    THEN [ok |-> TRUE, payload |-> blob.plaintext]
    ELSE [ok |-> FALSE, payload |-> NoPlaintext]

\* codecWire: the message in flight with the key its encoder was built for.
NoWire == [blob |-> NoBlob, key |-> NoCodecKey]

\* codecResult: the last decode, with the key its decoder was built for.
NoDecode == [mode |-> "none", key |-> NoCodecKey, ok |-> FALSE,
             payload |-> NoPlaintext]

CodecInit == codecLib = "none" /\ codecWire = NoWire /\ codecResult = NoDecode

\* The build resolves @waku/message-encryption to one release.
ImportLibrary(api) ==
    /\ codecLib = "none"
    /\ codecLib' = api
    /\ UNCHANGED <<codecWire, codecResult>>
    /\ UNCHANGED <<wakuVars, torVars, signVars, hexVars, keyVars,
                 recvVars, hookVars>>

EncodeSymmetric(plaintext, symKey) ==
    /\ codecLib # "none"
    /\ codecWire' = [blob |-> toWire(createSymmetricEncoder(contentTopic,
                                                            symKey),
                                     plaintext),
                     key |-> symKey]
    /\ codecResult' = NoDecode
    /\ UNCHANGED codecLib
    /\ UNCHANGED <<wakuVars, torVars, signVars, hexVars, keyVars,
                 recvVars, hookVars>>

EncodeECIES(plaintext, publicKey) ==
    /\ codecLib # "none"
    /\ codecWire' = [blob |-> toWire(createECIESEncoder(contentTopic,
                                                        publicKey),
                                     plaintext),
                     key |-> publicKey]
    /\ codecResult' = NoDecode
    /\ UNCHANGED codecLib
    /\ UNCHANGED <<wakuVars, torVars, signVars, hexVars, keyVars,
                 recvVars, hookVars>>

\* One byte of the encrypted message changes in flight.
AlterByte ==
    /\ codecWire.blob.mode # "none"
    /\ codecWire.blob.intact
    /\ codecWire' = [codecWire EXCEPT !.blob.intact = FALSE]
    /\ codecResult' = NoDecode
    /\ UNCHANGED codecLib
    /\ UNCHANGED <<wakuVars, torVars, signVars, hexVars, keyVars,
                 recvVars, hookVars>>

DecodeSymmetric(symKey) ==
    /\ codecLib # "none"
    /\ codecWire.blob.mode # "none"
    /\ LET r == fromWire(createSymmetricDecoder(contentTopic, symKey),
                         codecWire.blob) IN
       codecResult' = [mode |-> "symmetric", key |-> symKey, ok |-> r.ok,
                       payload |-> r.payload]
    /\ UNCHANGED <<codecLib, codecWire>>
    /\ UNCHANGED <<wakuVars, torVars, signVars, hexVars, keyVars,
                 recvVars, hookVars>>

DecodeECIES(privateKey) ==
    /\ codecLib # "none"
    /\ codecWire.blob.mode # "none"
    /\ LET r == fromWire(createECIESDecoder(contentTopic, privateKey),
                         codecWire.blob) IN
       codecResult' = [mode |-> "ecies", key |-> privateKey, ok |-> r.ok,
                       payload |-> r.payload]
    /\ UNCHANGED <<codecLib, codecWire>>
    /\ UNCHANGED <<wakuVars, torVars, signVars, hexVars, keyVars,
                 recvVars, hookVars>>

CodecNext ==
    \/ \E api \in LibraryAPIs : ImportLibrary(api)
    \/ \E plaintext \in Plaintexts, symKey \in SymKeys :
          EncodeSymmetric(plaintext, symKey)
    \/ \E plaintext \in Plaintexts, privateKey \in PrivateKeys :
          EncodeECIES(plaintext, generatePublicKeyFromPrivate(privateKey))
    \/ AlterByte
    \/ \E symKey \in SymKeys : DecodeSymmetric(symKey)
    \/ \E privateKey \in PrivateKeys : DecodeECIES(privateKey)

\* ------------------------------------------ useWakuIntegration and useTor
\* The two React hooks, part_000 lines 235-339 and part_005 lines 37-165.
\* Each owns a manager; what the manager's method returns to the hook is
\* drawn from what it can hand to its caller: true, false or an exception.
\* A hook's asynchronous functions are called one at a time; the cleanup of
\* useTor's effect (part_005 lines 146-148) calls the synchronous shutdown
\* whenever the component unmounts, also while initialize() is in flight.

MaxHookMessages == 2

HookNames == {"waku", "tor"}

ManagerOutcomes == {"true", "false", "throw"}

HookCalls == {"idle", "initialize", "getPeers", "sendMessage", "shutdown"}

\* useState initial values, part_000 lines 237-241 and part_005 lines 39-44.
\* call is the function of the hook in flight and where it is suspended;
\* result and sendResult are what initialize() and sendMessage() returned
\* last; callbackSet tells whether the manager holds the hook's observer.
IdleHook ==
    [isConnected |-> FALSE,
     isInitializing |-> FALSE,
     error |-> "null",
     messages |-> <<>>,
     callbackSet |-> FALSE,
     call |-> "idle",
     result |-> "none",
     sendResult |-> "none"]

HookInit == hooks = [h \in HookNames |-> IdleHook]

\* initialize() of either hook up to its first await: part_000 lines
\* 245-249, part_005 lines 48-52.
HookInitializeBegin(h) ==
    /\ hooks[h].call = "idle"
    /\ hooks' = [hooks EXCEPT ![h].isInitializing = TRUE,
                              ![h].error = "null",
                              ![h].call = "initialize"]
    /\ UNCHANGED <<wakuVars, torVars, signVars, hexVars, keyVars, codecVars,
                   recvVars>>

\* initialize() whose catch path leaves out the finally block.
HookInitializeReturnNoFinally(h, o) ==
    /\ hooks[h].call = "initialize"
    /\ hooks' =
          IF o = "true" /\ h = "waku"
          THEN [hooks EXCEPT ![h].isConnected = TRUE,
                             ![h].callbackSet = TRUE,
                             ![h].call = "getPeers"]
          ELSE IF o = "true"
          THEN [hooks EXCEPT ![h].isConnected = TRUE,
                             ![h].result = "true",
                             ![h].isInitializing = FALSE,
                             ![h].call = "idle"]
          ELSE IF o = "false"
          THEN [hooks EXCEPT ![h].isConnected = FALSE,
                             ![h].error = "initialize failed",
                             ![h].result = "false",
                             ![h].isInitializing = FALSE,
                             ![h].call = "idle"]
          ELSE [hooks EXCEPT ![h].error = "initialize threw",
                             ![h].isConnected = FALSE,
                             ![h].result = "false",
                             ![h].call = "idle"]
    /\ UNCHANGED <<wakuVars, torVars, signVars, hexVars, keyVars, codecVars,
                   recvVars>>

\* initialize() resumed with the manager's answer o: part_000 lines 249-273,
\* part_005 lines 52-72.  On success useWakuIntegration registers its
\* observer and suspends again on getPeers(), lines 254-259; useTor reads
\* the manager's status synchronously and returns.  The finally block resets
\* isInitializing on every path that returns.
HookInitializeReturn(h, o) ==
    /\ hooks[h].call = "initialize"
    /\ hooks' =
          IF o = "true" /\ h = "waku"
          THEN [hooks EXCEPT ![h].isConnected = TRUE,
                             ![h].callbackSet = TRUE,
                             ![h].call = "getPeers"]
          ELSE IF o = "true"
          THEN [hooks EXCEPT ![h].isConnected = TRUE,
                             ![h].result = "true",
                             ![h].isInitializing = FALSE,
                             ![h].call = "idle"]
          ELSE IF o = "false"
          THEN [hooks EXCEPT ![h].isConnected = FALSE,
                             ![h].error = "initialize failed",
                             ![h].result = "false",
                             ![h].isInitializing = FALSE,
                             ![h].call = "idle"]
          ELSE [hooks EXCEPT ![h].error = "initialize threw",
                             ![h].isConnected = FALSE,
                             ![h].result = "false",
                             ![h].isInitializing = FALSE,
                             ![h].call = "idle"]
    /\ UNCHANGED <<wakuVars, torVars, signVars, hexVars, keyVars, codecVars,
                   recvVars>>

\* useWakuIntegration.initialize() resumed after getPeers(), part_000 lines
\* 259-265 and 271-273; SafeCastWaku.getPeers() catches what it raises,
\* lines 180-193.
HookGetPeersReturn(h) ==
    /\ h = "waku"
    /\ hooks[h].call = "getPeers"
    /\ hooks' = [hooks EXCEPT ![h].result = "true",
                              ![h].isInitializing = FALSE,
                              ![h].call = "idle"]
    /\ UNCHANGED <<wakuVars, torVars, signVars, hexVars, keyVars, codecVars,
                   recvVars>>

\* The observer registered at part_000 lines 254-256, invoked by the manager
\* with a received message.
HookMessageCallback(h) ==
    /\ h = "waku"
    /\ hooks[h].callbackSet
    /\ Len(hooks[h].messages)
          + (IF hooks[h].call = "sendMessage" THEN 1 ELSE 0) < MaxHookMessages
    /\ hooks' = [hooks EXCEPT ![h].messages = Append(@, "received")]
    /\ UNCHANGED <<wakuVars, torVars, signVars, hexVars, keyVars, codecVars,
                   recvVars>>

\* useWakuIntegration.sendMessage() up to its await, part_000 lines 277-279.
HookSendMessageBegin(h) ==
    /\ h = "waku"
    /\ hooks[h].call = "idle"
    /\ Len(hooks[h].messages) < MaxHookMessages
    /\ hooks' = [hooks EXCEPT ![h].call = "sendMessage"]
    /\ UNCHANGED <<wakuVars, torVars, signVars, hexVars, keyVars, codecVars,
                   recvVars>>

\* sendMessage() appending its message whatever the manager answered.
HookSendMessageReturnAlways(h, o) ==
    /\ h = "waku"
    /\ hooks[h].call = "sendMessage"
    /\ hooks' =
          IF o = "true"
          THEN [hooks EXCEPT ![h].messages = Append(@, "own"),
                             ![h].sendResult = "true",
                             ![h].call = "idle"]
          ELSE IF o = "false"
          THEN [hooks EXCEPT ![h].messages = Append(@, "own"),
                             ![h].sendResult = "false",
                             ![h].call = "idle"]
          ELSE [hooks EXCEPT ![h].error = "send threw",
                             ![h].sendResult = "false",
                             ![h].call = "idle"]
    /\ UNCHANGED <<wakuVars, torVars, signVars, hexVars, keyVars, codecVars,
                   recvVars>>

\* sendMessage() resumed with the manager's answer o, part_000 lines
\* 279-298: the message, isOwn = true, is appended when the answer is true.
HookSendMessageReturn(h, o) ==
    /\ h = "waku"
    /\ hooks[h].call = "sendMessage"
    /\ hooks' =
          IF o = "true"
          THEN [hooks EXCEPT ![h].messages = Append(@, "own"),
                             ![h].sendResult = "true",
                             ![h].call = "idle"]
          ELSE IF o = "false"
          THEN [hooks EXCEPT ![h].sendResult = "false",
                             ![h].call = "idle"]
          ELSE [hooks EXCEPT ![h].error = "send threw",
                             ![h].sendResult = "false",
                             ![h].call = "idle"]
    /\ UNCHANGED <<wakuVars, torVars, signVars, hexVars, keyVars, codecVars,
                   recvVars>>

\* useWakuIntegration.shutdown() up to its await, part_000 lines 319-320.
HookShutdownBegin(h) ==
    /\ h = "waku"
    /\ hooks[h].call = "idle"
    /\ hooks' = [hooks EXCEPT ![h].call = "shutdown"]
    /\ UNCHANGED <<wakuVars, torVars, signVars, hexVars, keyVars, codecVars,
                   recvVars>>

\* useWakuIntegration.shutdown() resumed, part_000 lines 320-324; when the
\* manager's shutdown() rejects, the lines after the await do not run.  The
\* manager that shut down has dropped the observer, part_000 line 204.
HookShutdownReturn(h, o) ==
    /\ h = "waku"
    /\ hooks[h].call = "shutdown"
    /\ hooks' =
          IF o = "ok"
          THEN [hooks EXCEPT ![h].isConnected = FALSE,
                             ![h].messages = <<>>,
                             ![h].error = "null",
                             ![h].callbackSet = FALSE,
                             ![h].call = "idle"]
          ELSE [hooks EXCEPT ![h].call = "idle"]
    /\ UNCHANGED <<wakuVars, torVars, signVars, hexVars, keyVars, codecVars,
                   recvVars>>

\* useTor.shutdown(), part_005 lines 113-120: synchronous.
HookTorShutdown(h) ==
    /\ h = "tor"
    /\ hooks' = [hooks EXCEPT ![h].isConnected = FALSE,
                              ![h].error = "null"]
    /\ UNCHANGED <<wakuVars, torVars, signVars, hexVars, keyVars, codecVars,
                   recvVars>>

Init ==
    /\ WakuInit
    /\ TorInit
    /\ SignInit
    /\ HexInit
    /\ KeyInit
    /\ CodecInit
    /\ RecvInit
    /\ HookInit

\* The owner of a session invokes its operations one after the other
\* (spec section 5); the transport delivers at any time.
Next ==
    \/ CallerIdle /\ InitializeBegin
    \/ \E o \in Outcomes : CreateLightNodeReturn(o)
    \/ \E o \in Outcomes : StartReturn(o)
    \/ \E o \in Outcomes : SubscribeReturn(o)
    \/ CallerIdle /\ ShutdownBegin
    \/ StopReturn
    \/ CallerIdle /\ SendMessageBegin
    \/ \E o \in Outcomes : SendReturn(o)
    \/ \E c \in Callbacks : CallerIdle /\ SetMessageCallback(c)
    \/ \E k \in Keys : CallerIdle /\ SetSymmetricKey(k)
    \/ \E n \in NodeIds, m \in InboundMessages : HandleReceivedMessage(n, m)

Spec == Init /\ [][Next]_vars

TorNext ==
    \/ TorCallerIdle /\ TorInitializeBegin
    \/ \E o \in ProbeOutcomes : CheckTorRunningReturn(o)
    \/ \E o \in ProbeOutcomes : TestSocksConnectionReturn(o)
    \/ TorInitializeFinish
    \/ TorCallerIdle /\ TorShutdown
    \/ \E id \in ServiceIds : TorCallerIdle /\ CreateSafeCastOnionService(id)
    \/ \E rpcName \in RpcNames : TorCallerIdle /\ MakePrivateCallBegin(rpcName)
    \/ SimulateRPCCallReturn
    \/ \E name \in CustomRPCs, timeout \in Timeouts :
          TorCallerIdle /\ AddPrivateRPC(name, timeout)

TorSpec == Init /\ [][TorNext]_vars

\* The session and the Tor manager in one specification.  The two objects
\* share no field and call nothing of each other, so a behaviour exercises
\* one of them while the other stays as constructed.
BothNext ==
    \/ TorInit /\ CallerIdle /\ InitializeBegin
    \/ \E o \in Outcomes : TorInit /\ CreateLightNodeReturn(o)
    \/ \E o \in Outcomes : TorInit /\ StartReturn(o)
    \/ \E o \in Outcomes : TorInit /\ SubscribeReturn(o)
    \/ TorInit /\ CallerIdle /\ ShutdownBegin
    \/ TorInit /\ StopReturn
    \/ TorInit /\ CallerIdle /\ SendMessageBegin
    \/ \E o \in Outcomes : TorInit /\ SendReturn(o)
    \/ \E c \in Callbacks : TorInit /\ CallerIdle /\ SetMessageCallback(c)
    \/ \E k \in Keys : TorInit /\ CallerIdle /\ SetSymmetricKey(k)
    \/ \E n \in NodeIds, m \in InboundMessages :
          TorInit /\ HandleReceivedMessage(n, m)
    \/ WakuInit /\ TorCallerIdle /\ TorInitializeBegin
    \/ \E o \in ProbeOutcomes : WakuInit /\ CheckTorRunningReturn(o)
    \/ \E o \in ProbeOutcomes : WakuInit /\ TestSocksConnectionReturn(o)
    \/ WakuInit /\ TorInitializeFinish
    \/ WakuInit /\ TorCallerIdle /\ TorShutdown
    \/ \E id \in ServiceIds :
          WakuInit /\ TorCallerIdle /\ CreateSafeCastOnionService(id)
    \/ \E rpcName \in RpcNames :
          WakuInit /\ TorCallerIdle /\ MakePrivateCallBegin(rpcName)
    \/ WakuInit /\ SimulateRPCCallReturn
    \/ \E name \in CustomRPCs, timeout \in Timeouts :
          WakuInit /\ TorCallerIdle /\ AddPrivateRPC(name, timeout)

BothSpec == Init /\ [][BothNext]_vars

\* The session with its operations overlapping: initialize() and shutdown()
\* are entered whatever the other is doing, and each resumes when what it
\* awaits settles.
OverlapNext ==
    \/ InitializeBegin
    \/ \E o \in Outcomes : CreateLightNodeReturn(o)
    \/ \E o \in Outcomes : StartReturn(o)
    \/ \E o \in Outcomes : SubscribeReturn(o)
    \/ ShutdownBegin
    \/ StopReturn
    \/ \E k \in Keys : SetSymmetricKey(k)

OverlapSpec == Init /\ [][OverlapNext]_vars

\* The Tor manager with shutdown() entered whatever initialize() is doing.
TorOverlapNext ==
    \/ TorInitializeBegin
    \/ \E o \in ProbeOutcomes : CheckTorRunningReturn(o)
    \/ \E o \in ProbeOutcomes : TestSocksConnectionReturn(o)
    \/ TorInitializeFinish
    \/ TorShutdown
    \/ \E rpcName \in RpcNames : MakePrivateCallBegin(rpcName)
    \/ SimulateRPCCallReturn

TorOverlapSpec == Init /\ [][TorOverlapNext]_vars

\* ------------------------------------------------------------- NodeSession

\* C1: a sendMessage call that begins while the session is not Ready
\* (isConnected false: before a successful initialize, after a failed one,
\* after shutdown) returns false and does not invoke lightPush.send.
C1_SendRequiresReady ==
    [][(SendMessageBegin /\ ~isConnected)
          => /\ sendResult' = "false"
             /\ sendCalls' = sendCalls
             /\ sendCall' = "idle"]_vars

\* A send was rejected after the session had been Ready and was shut down.
C1_Witness ==
    /\ lastOp = "sendMessage"
    /\ sendResult = "false"
    /\ sendCalls = 0
    /\ ~isConnected
    /\ initResult = "true"
    /\ \E n \in NodeIds : nodeStatus[n] = "stopped"

\* C2: an initialize() call made on a Ready session returns false and
\* creates no second transport node.
C2_SecondInitializeFails ==
    initCall.wasReady =>
        /\ nodesCreated = initCall.nodesBefore
        /\ (initCall.pc = "idle") => (initResult = "false")

\* The session fields shutdown() is to leave cleared.
ShutDownState ==
    /\ node = NoNode
    /\ ~isConnected
    /\ messageCallback = NoCallback

C4_NoForwardAfterShutdown ==
    [][(shutdownCall.pc = "stop" \/ (lastOp = "shutdown" /\ CallerIdle))
          => observerLog' = observerLog]_vars

\* C5: every delivery forwarded to an observer is one verifyMessageSignature
\* has run on.
C5_ForwardedWereSignatureChecked ==
    \A c \in Callbacks :
        \A i \in 1..Len(observerLog[c]) : observerLog[c][i] \in sigChecked

\* C6: a delivery with a decodable payload, made while an observer is
\* registered, is forwarded once to that observer; the log of no other
\* callback changes, so a replaced callback receives nothing further, and no
\* delivery is forwarded twice.
C6_ForwardedOnceToRegistered ==
    /\ [][/\ \A c \in Callbacks :
               observerLog'[c] # observerLog[c]
                  => /\ c = messageCallback
                     /\ handled' = handled + 1
                     /\ observerLog'[c] = Append(observerLog[c], handled')
           /\ \A n \in NodeIds, m \in InboundMessages :
               (HandleReceivedMessage(n, m) /\ m.payload = "object"
                    /\ messageCallback # NoCallback)
                  => Len(observerLog'[messageCallback])
                        = Len(observerLog[messageCallback]) + 1]_vars
    /\ [](\A c, d \in Callbacks :
            \A i \in 1..Len(observerLog[c]), j \in 1..Len(observerLog[d]) :
                observerLog[c][i] = observerLog[d][j] => (c = d /\ i = j))

\* Callback 1 received a delivery, was replaced by callback 2, and callback 2
\* received the next delivery.
C6_Witness ==
    /\ messageCallback = 2
    /\ observerLog[1] = <<1>>
    /\ observerLog[2] = <<2>>

\* C7: when filter.subscribe fails during initialize(), initialize() returns
\* false and the session does not become Ready.
C7_SubscribeFailureFailsInitialize ==
    [][SubscribeReturn("throw")
          => (initResult' = "false" /\ isConnected' = isConnected)]_vars

\* C8: the session becomes Ready only in an initialize() call that started
\* the session's node and then established the subscription on it, and is
\* never Ready without an active subscription on its node.
C8_ReadyOnlyAfterStartAndSubscribe ==
    /\ [][(~isConnected /\ isConnected')
              => /\ initCall.node # NoNode
                 /\ node' = initCall.node
                 /\ nodeStatus'[node'] = "started"
                 /\ subscription'[node'] # NullCodec]_vars
    /\ []((isConnected /\ CallerIdle)
              => (node # NoNode /\ subscription[node] # NullCodec))

\* ------------------------------------------------- TorConnectivityManager
Connected == isInitialized /\ torIsConnected

\* The order and number of the probes of the current initialize() call.
ProbeDiscipline ==
    /\ (torCall.testSocksConnection # "not run")
          => (torCall.checkTorRunning = "true")
    /\ (torCall.socksRuns > 0) => (torCall.checkTorRunning = "true")
    /\ torCall.checkRuns <= 1
    /\ torCall.socksRuns <= 1

\* C9: the manager becomes Connected only in an initialize() call whose
\* liveness probe and SOCKS test both resolved true; the SOCKS test is run
\* only after the liveness probe resolved true; each probe runs at most once
\* in a call.
C9_ConnectedOnlyAfterBothProbes ==
    /\ [][((~torIsConnected /\ torIsConnected') \/ (~Connected /\ Connected'))
              => /\ torCall'.checkTorRunning = "true"
                 /\ torCall'.testSocksConnection = "true"]_vars
    /\ []ProbeDiscipline

\* An initialize() call reached Connected, and a later one stopped at a
\* failed liveness probe without running the SOCKS test.
C9_Witness ==
    /\ Connected
    /\ torCall.pc = "idle"
    /\ torCall.checkTorRunning = "false"
    /\ torCall.socksRuns = 0
    /\ torResult = "false"

C11_ServiceIdsUnique ==
    Cardinality(getActiveOnionServices) = servicesCreated

\* C12: after shutdown() the manager is Disconnected and the onion registry
\* is empty.
C12_ShutdownEmptiesRegistry ==
    torLastOp = "shutdown"
        => (~isInitialized /\ ~torIsConnected /\ getActiveOnionServices = {})

\* The manager is Disconnected by its history: no operation has completed
\* yet, or the last one was a shutdown() or an initialize() returning false.
DisconnectedByHistory ==
    \/ torLastOp = "none"
    \/ torLastOp = "shutdown"
    \/ (torLastOp = "initialize" /\ torResult = "false")

C14_SlowCallTimesOut ==
    [][(SimulateRPCCallReturn /\ SimulatedLatency > rpcCall.timeout)
          => rpcResult' = "timeout"]_vars

\* C15: on a Connected manager makePrivateCall() with a name that is not
\* registered fails with the unknown-endpoint error and dispatches no call.
C15_UnknownEndpointFails ==
    [][\A rpcName \in RpcNames :
          (Connected /\ ~HasRPC(rpcConfigs, rpcName)
               /\ MakePrivateCallBegin(rpcName))
              => (rpcResult' = "not found"
                  /\ rpcCall'.pc = "idle"
                  /\ rpcDispatched' = rpcDispatched)]_vars

\* A Connected manager has just rejected a name that is not registered.
C15_Witness ==
    /\ Connected
    /\ torLastOp = "makePrivateCall"
    /\ rpcResult = "not found"
    /\ rpcDispatched = 0

NoDuplicateNames ==
    \A i, j \in DOMAIN rpcConfigs :
        rpcConfigs[i].name = rpcConfigs[j].name => i = j

EndpointsKept ==
    \A name \in RpcNames :
        HasRPC(rpcConfigs, name) => HasRPC(rpcConfigs', name)

DefaultsRegistered == \A name \in DefaultRPCs : HasRPC(rpcConfigs, name)

\* C16: no endpoint name is registered twice; no step removes a registered
\* endpoint; shutdown() leaves the endpoint registry as it is; an
\* initialize() on a registry that holds the default endpoints leaves the
\* same names registered.
C16_EndpointsPersist ==
    /\ []NoDuplicateNames
    /\ [][EndpointsKept]_vars
    /\ [][TorShutdown => rpcConfigs' = rpcConfigs]_vars
    /\ [][(TorInitializeFinish /\ DefaultsRegistered)
              => RegisteredNames(rpcConfigs') = RegisteredNames(rpcConfigs)]_vars

\* The default endpoints and a custom one are registered on a manager that
\* has been shut down.
C16_Witness ==
    /\ torLastOp = "shutdown"
    /\ ~isInitialized
    /\ DefaultsRegistered
    /\ \E name \in CustomRPCs : HasRPC(rpcConfigs, name)

\* A step that completes a sendMessage() call with false: the guard of line
\* 132 rejects it, or lightPush.send() rejects.
FailedSendStep ==
    /\ \/ SendMessageBegin /\ sendCall' = "idle"
       \/ \E o \in Outcomes : SendReturn(o)
    /\ sendResult' = "false"

\* A step in which makePrivateCall() throws.
FailedCallStep ==
    \E rpcName \in RpcNames :
        MakePrivateCallBegin(rpcName) /\ rpcCall'.pc = "idle"

\* C17: a step taken while a sendMessage() call is in flight, and the step
\* that completes a call with false, leave isConnected, node, encoder,
\* decoder and messageCallback unchanged; a makePrivateCall() that throws
\* leaves torIsConnected, isInitialized, the onion registry and the
\* endpoint registry unchanged.
C17_FailedCallsChangeNothing ==
    /\ [][(sendCall = "send" \/ FailedSendStep)
              => UNCHANGED <<isConnected, node, encoder, decoder,
                             messageCallback>>]_vars
    /\ [][FailedCallStep
              => UNCHANGED <<torIsConnected, isInitialized, services,
                             servicesCreated, rpcConfigs>>]_vars

\* A Ready session with an observer whose lightPush.send() was rejected.
C17_Witness ==
    /\ lastOp = "sendMessage"
    /\ sendResult = "false"
    /\ sendCalls > 0
    /\ sendCall = "idle"
    /\ isConnected
    /\ messageCallback # NoCallback

\* C18: torIsConnected and isInitialized change only in a step of an
\* initialize() call in flight or in shutdown(); createSafeCastOnionService()
\* and makePrivateCall() never change them.
C18_StateChangesOnlyInInitializeOrShutdown ==
    [][(torIsConnected' # torIsConnected \/ isInitialized' # isInitialized)
          => (torCall.pc # "idle" \/ TorShutdown)]_vars

\* A Connected manager has created an onion service and completed a call.
C18_Witness ==
    /\ Connected
    /\ servicesCreated > 0
    /\ torLastOp = "makePrivateCall"
    /\ rpcResult = "result"

\* verifyMessageSignature has been applied.
Verified == verification.result.message # ""

\* The signature of the verified message was made with the private key of
\* the expected public key.
SignedByExpected ==
    /\ verification.message.signer # NoSignature
    /\ generateSigningPublicKey(verification.message.signer)
           = verification.expectedPublicKey

\* C19: verifyMessageSignature returns isValid = true exactly when the
\* message carries a signature made with the private key of
\* expectedPublicKey; a message signed with another private key gives
\* isValid = false with the verification-failed reason.
C19_ValidIffSignedByExpected ==
    Verified =>
        /\ verification.result.isValid <=> SignedByExpected
        /\ (verification.message.signer # NoSignature /\ ~SignedByExpected)
               => verification.result
                     = [isValid |-> FALSE,
                        message |-> "Message signature verification failed"]

\* A message signed with one private key was verified against the public
\* key of another and found invalid.
C19_Witness ==
    /\ Verified
    /\ verification.message.signer # NoSignature
    /\ ~SignedByExpected
    /\ ~verification.result.isValid

\* C20: a message without a signature gives isValid = false with the
\* no-signature reason, and a message with a signature never gives that
\* reason.
C20_NoSignatureReason ==
    Verified =>
        /\ verification.message.signer = NoSignature
              => verification.result
                    = [isValid |-> FALSE,
                       message |-> "No signature found in message"]
        /\ verification.message.signer # NoSignature
              => verification.result.message # "No signature found in message"

\* A message without a signature was verified and rejected.
C20_Witness ==
    /\ Verified
    /\ verification.message.signer = NoSignature
    /\ verification.expectedPublicKey \in PublicKeys
    /\ verification.result.message = "No signature found in message"

\* C23: the bytes restored from the hex string of a byte sequence are that
\* byte sequence.
C23_HexRoundTrip ==
    hexCall.pc = "restored" => hexCall.restored = hexCall.bytes

\* A sequence with a byte below 16 and a byte above 127 has been converted
\* and restored.
C23_Witness ==
    /\ hexCall.pc = "restored"
    /\ hexCall.bytes = <<9, 160>>
    /\ hexCall.hex = <<"0", "9", "a", "0">>

\* The decoder of the last decode was built for the key that matches the key
\* the encoder of the message in flight was built for.
MatchingKey ==
    /\ codecResult.mode = codecWire.blob.mode
    /\ IF codecResult.mode = "symmetric"
       THEN codecResult.key = codecWire.key
       ELSE generatePublicKeyFromPrivate(codecResult.key) = codecWire.key

Decoded == codecResult.mode # "none"

\* C21: decoding an unaltered encoded message with a decoder built for the
\* matching key (the same symmetric key, or the private key of the encoder's
\* public key) returns the payload that was encoded.
C21_DecodeEncodeRoundTrip ==
    (Decoded /\ codecWire.blob.intact /\ MatchingKey)
        => (codecResult.ok /\ codecResult.payload = codecWire.blob.plaintext)

C27_DisconnectedCallFails ==
    [][\A rpcName \in RpcNames :
          (~Connected /\ MakePrivateCallBegin(rpcName))
              => (/\ rpcResult' \in {"not initialized", "not connected"}
                  /\ rpcCall'.pc = "idle"
                  /\ rpcDispatched' = rpcDispatched)]_vars

\* A manager that has endpoints registered and is not Connected has just
\* rejected a call.
C27_Witness ==
    /\ ~Connected
    /\ torLastOp = "makePrivateCall"
    /\ rpcResult = "not initialized"
    /\ rpcConfigs # <<>>
    /\ rpcDispatched = 0

\* C29: when shutdown() was entered while initialize() was in flight, the
\* session is not connected once both calls have finished.
C29_ShutdownDuringInitializeWins ==
    (/\ initCall.pc = "idle"
     /\ shutdownCall.pc = "idle"
     /\ initCall.shutdownSeen)
        => ~isConnected

\* C30: when shutdown() ran while initialize() was suspended on its probes,
\* the manager is Disconnected once initialize() has finished.
C30_TorShutdownDuringInitializeWins ==
    (torCall.pc = "idle" /\ torCall.shutdownSeen)
        => (~isInitialized /\ ~torIsConnected)

\* The item stored is the one the save recorded in keyCall.saved wrote.
StoredBundle == keyCall.saved # NoSaved

\* C24: loadKeys() on the manager whose saveKeys(b) wrote the stored item
\* returns b, for the plain and for the obfuscated store.
C24_SaveLoadRoundTrip ==
    (keyCall.op = "loadKeys" /\ keyCall.saved.manager = keyCall.manager)
        => (keyCall.value = keyCall.saved.keys /\ ~keyCall.threw)

\* An obfuscating manager has loaded the bundle it saved.
C24_Witness ==
    /\ keyCall.op = "loadKeys"
    /\ keyCall.after = "saveKeys"
    /\ keyCall.manager.kind = "secure"
    /\ keyCall.saved.manager = keyCall.manager
    /\ keyCall.value \in Bundles

\* C25: loadKeys(), hasKeys() and loadOrGenerateKeys(), on any manager,
\* leave a stored bundle as it is.
C25_OnlyClearDestroys ==
    [][\A mgr \in Managers :
          (/\ StoredBundle
           /\ \/ LoadKeys(mgr)
              \/ HasKeys(mgr)
              \/ \E generated \in Bundles, o \in Outcomes :
                    LoadOrGenerateKeys(mgr, generated, o))
              => storage' = storage]_vars

\* The stored item is present and is not what mgr would have saved.
Unreadable(mgr) ==
    /\ storage.present
    /\ \A keys \in Bundles : storage # Persisted(mgr, keys)

\* C26: loadKeys() never throws and leaves the store unchanged, and returns
\* null when the stored item does not parse; a saveKeys() whose storage
\* write fails throws and leaves the store unchanged.
C26_LoadSoftSaveLoud ==
    /\ [][\A mgr \in Managers :
              LoadKeys(mgr)
                  => /\ ~keyCall'.threw
                     /\ storage' = storage
                     /\ Unreadable(mgr) => keyCall'.value = NoBundle]_vars
    /\ [][\A mgr \in Managers, keys \in Bundles :
              SaveKeys(mgr, keys, "throw")
                  => (keyCall'.threw /\ storage' = storage)]_vars

\* A manager has read an item obfuscated with another encryption key and
\* returned null.
C26_Witness ==
    /\ keyCall.op = "loadKeys"
    /\ keyCall.manager.kind = "secure"
    /\ keyCall.saved.manager.kind = "secure"
    /\ keyCall.saved.manager # keyCall.manager
    /\ keyCall.value = NoBundle
    /\ ~keyCall.threw

\* C28: loadOrGenerateKeys() returns the stored bundle and leaves the store
\* as it is when a bundle is stored, and otherwise returns a generated bundle
\* and persists it; a call that follows a call on the same manager returns
\* the same bundle; after a call that returned, hasKeys() is true.
C28_LoadOrGenerate ==
    [][\A mgr \in Managers, generated \in Bundles, o \in Outcomes :
          LoadOrGenerateKeys(mgr, generated, o)
              => /\ StoredBundle
                    => /\ keyCall'.value = keyCall.saved.keys
                       /\ ~keyCall'.threw
                       /\ storage' = storage
                 /\ (~StoredBundle /\ o = "ok")
                    => /\ keyCall'.value = generated
                       /\ storage' = Persisted(mgr, generated)
                 /\ (/\ keyCall.op = "loadOrGenerateKeys"
                     /\ keyCall.manager = mgr
                     /\ ~keyCall.threw)
                    => (keyCall'.value = keyCall.value /\ ~keyCall'.threw)
                 /\ ~keyCall'.threw => storage'.present]_vars

\* C31: whatever the interleaving of initialize(), shutdown() and
\* setSymmetricKey(), a session whose isConnected is true has a node, an
\* encoder and a decoder.
C31_ConnectedHasNodeAndCodecs ==
    isConnected
        => (node # NoNode /\ encoder # NullCodec /\ decoder # NullCodec)

StartedNodes == {n \in NodeIds : nodeStatus[n] = "started"}

\* C32: at most one node is started, a started node is the one the session
\* references, and no node is started once shutdown() has completed.
C32_OneStartedNodeStoppedOnShutdown ==
    /\ Cardinality(StartedNodes) <= 1
    /\ \A n \in StartedNodes : node = n
    /\ (CallerIdle /\ lastOp = "shutdown") => StartedNodes = {}

C34_SubscriptionFollowsKey ==
    [][\A k \in Keys :
          (/\ isConnected
           /\ node # NoNode
           /\ subscription[node] # NullCodec
           /\ SetSymmetricKey(k))
              => (/\ subscription'[node'].symKey = k
                  /\ subscription'[node'].symKey = encoder'.symKey)]_vars

\* The key a decoder built by the session's createDecoder(contentTopic,
\* symKey) call decrypts with, under the release the build resolved.
decoderKey(d) ==
    messageEncryptionCreateDecoder("symmetric",
        <<d.contentTopic, <<"sym", d.symKey>>>>).key

\* C35: an encoder and a decoder that exist are built for the session's
\* content topic and decrypt and encrypt with the current config.symKey.
C35_CodecsUseConfigKey ==
    (encoder # NullCodec /\ decoder # NullCodec)
        => (/\ encoder.contentTopic = config.contentTopic
            /\ decoder.contentTopic = config.contentTopic
            /\ encoder.symKey = config.symKey
            /\ decoderKey(decoder) = <<"sym", config.symKey>>)

\* C36: handleReceivedMessage does not throw and leaves the session as it
\* is; a message without payload or whose payload does not parse reaches no
\* observer; a message arriving while no observer is registered reaches no
\* observer, and registering an observer afterwards delivers nothing.
C36_HandlerNeverThrowsNorBuffers ==
    /\ [][\A n \in NodeIds, m \in InboundMessages :
              HandleReceivedMessage(n, m)
                  => /\ ~received'.threw
                     /\ UNCHANGED <<node, encoder, decoder, isConnected,
                                    messageCallback, config, nodeStatus,
                                    subscription>>
                     /\ (m.payload # "object") => (observerLog' = observerLog)
                     /\ (messageCallback = NoCallback)
                           => (observerLog' = observerLog)]_vars
    /\ [][\A c \in Callbacks :
              SetMessageCallback(c) => observerLog' = observerLog]_vars

\* A payload that does not parse was handled while an observer was
\* registered: nothing was thrown and no observer has been invoked.
C36_Witness ==
    /\ received.payload = "garbage"
    /\ ~received.threw
    /\ messageCallback # NoCallback
    /\ \A c \in Callbacks : observerLog[c] = <<>>

\* The deliveries onMessageInvalid was invoked with.
invalidDeliveries == {x[1] : x \in invalidLog}

\* C37: for each delivered message the handler invokes exactly one of
\* onMessageVerified and onMessageInvalid, and onMessageVerified only when
\* verifyMessageSignature returned isValid = true for the expected key.
C37_ExactlyOneOutcome ==
    [][\A m \in InboundMessages, v \in BOOLEAN, i \in BOOLEAN :
          SignedMessageCallback(m, v, i)
              => /\ (handled' \in verifiedLog')
                       # (handled' \in invalidDeliveries')
                 /\ (handled' \in verifiedLog')
                       => /\ verification'.result.isValid
                          /\ verification'.expectedPublicKey
                                = ExpectedPublicKey]_vars

\* C37, amended: for each delivered message the handler invokes at most one
\* of onMessageVerified and onMessageInvalid, exactly one when both were
\* supplied, onMessageVerified only when verifyMessageSignature returned
\* isValid = true for the expected key and onMessageInvalid only when it
\* returned isValid = false; earlier deliveries are not reported again.
C37_AtMostOneOutcome ==
    [][\A m \in InboundMessages, v \in BOOLEAN, i \in BOOLEAN :
          SignedMessageCallback(m, v, i)
              => /\ ~(/\ handled' \in verifiedLog'
                      /\ handled' \in invalidDeliveries')
                 /\ (v /\ i)
                       => ((handled' \in verifiedLog')
                             # (handled' \in invalidDeliveries'))
                 /\ (handled' \in verifiedLog')
                       => /\ verification'.result.isValid
                          /\ verification'.expectedPublicKey
                                = ExpectedPublicKey
                 /\ (handled' \in invalidDeliveries')
                       => ~verification'.result.isValid
                 /\ verifiedLog' \ {handled'} = verifiedLog
                 /\ invalidDeliveries' \ {handled'} = invalidDeliveries]_vars

\* A handler built with both callbacks has reported a message signed with
\* another key as invalid and nothing as verified.
C37_Witness ==
    /\ verification.onMessageVerified
    /\ verification.onMessageInvalid
    /\ verification.message.signer # NoSignature
    /\ ~verification.result.isValid
    /\ handled \in invalidDeliveries
    /\ handled \notin verifiedLog

\* C38: verifyMessageSignature lets no exception through: when
\* verifySignature raises, the result is isValid = false with the
\* verification-error reason, which is neither the no-signature nor the
\* invalid-signature reason.
C38_VerifyNeverThrows ==
    Verified =>
        /\ verification.result # Thrown
        /\ (/\ HasSignature(verification.message)
            /\ verifySignatureRaises(verification.message,
                                      verification.expectedPublicKey))
              => /\ verification.result
                       = [isValid |-> FALSE,
                          message |-> "Signature verification error"]
                 /\ verification.result.message
                       \notin {"No signature found in message",
                                "Message signature verification failed"}

\* verifySignature has raised on a signed message.
C38_Witness ==
    /\ Verified
    /\ verification.message.signer # NoSignature
    /\ verification.expectedPublicKey = MalformedKey
    /\ verification.result.message = "Signature verification error"

\* initialize() of hook h is in flight.
Initializing(h) == hooks[h].call \in {"initialize", "getPeers"}

\* C39: in both hooks isInitializing is true only while initialize() is in
\* flight and is eventually reset, whether the manager answered true, false
\* or threw; when initialize() returns, isInitializing is false and the
\* hook's isConnected equals the value returned.
C39_InitializingResetConnectedIsResult ==
    /\ [](\A h \in HookNames : hooks[h].isInitializing => Initializing(h))
    /\ \A h \in HookNames :
          hooks[h].isInitializing ~> ~hooks[h].isInitializing
    /\ [][\A h \in HookNames :
              (Initializing(h) /\ hooks'[h].call = "idle")
                  => /\ ~hooks'[h].isInitializing
                     /\ hooks'[h].result \in {"true", "false"}
                     /\ hooks'[h].isConnected = (hooks'[h].result = "true")]_vars

\* An initialize() whose manager threw has returned false, with the hook
\* disconnected and no longer initializing.
C39_Witness ==
    \E h \in HookNames :
        /\ hooks[h].error = "initialize threw"
        /\ hooks[h].call = "idle"
        /\ hooks[h].result = "false"
        /\ ~hooks[h].isInitializing
        /\ ~hooks[h].isConnected

\* C40: useWakuIntegration.sendMessage appends its own message to the list
\* exactly when the manager's sendMessage answered true, and returns that
\* answer; a send that failed or threw leaves the list as it is.
C40_OwnMessageIffSent ==
    [][\A o \in ManagerOutcomes :
          HookSendMessageReturn("waku", o)
              => /\ hooks'["waku"].messages =
                       IF o = "true"
                       THEN Append(hooks["waku"].messages, "own")
                       ELSE hooks["waku"].messages
                 /\ (hooks'["waku"].sendResult = "true") <=> (o = "true")]_vars

\* After a send that succeeded, a send that failed has left the list with
\* the one own message.
C40_Witness ==
    /\ hooks["waku"].messages = <<"own">>
    /\ hooks["waku"].sendResult = "false"
    /\ hooks["waku"].call = "idle"

\* The handler of createSignedMessageCallback, subscribed by an application
\* on its own: no code of the session installs it.
SignedNext ==
    \/ \E m \in InboundMessages, onMessageVerified \in BOOLEAN,
          onMessageInvalid \in BOOLEAN :
          SignedMessageCallback(m, onMessageVerified, onMessageInvalid)
    \/ \E m \in InboundMessages, k \in PublicKeys : VerifyMessageSignature(m, k)

SignedSpec == Init /\ [][SignedNext]_vars

\* verifyMessageSignature applied with any expectedPublicKey argument, a
\* malformed one included, next to the handler.
VerifyNext ==
    \/ \E m \in InboundMessages, onMessageVerified \in BOOLEAN,
          onMessageInvalid \in BOOLEAN :
          SignedMessageCallback(m, onMessageVerified, onMessageInvalid)
    \/ \E m \in InboundMessages, k \in ExpectedKeys :
          VerifyMessageSignature(m, k)

VerifySpec == Init /\ [][VerifyNext]_vars

\* The two hooks driven by their component.
HookNext ==
    \/ \E h \in HookNames : HookInitializeBegin(h)
    \/ \E h \in HookNames, o \in ManagerOutcomes : HookInitializeReturn(h, o)
    \/ \E h \in HookNames : HookGetPeersReturn(h)
    \/ \E h \in HookNames : HookMessageCallback(h)
    \/ \E h \in HookNames : HookSendMessageBegin(h)
    \/ \E h \in HookNames, o \in ManagerOutcomes : HookSendMessageReturn(h, o)
    \/ \E h \in HookNames : HookShutdownBegin(h)
    \/ \E h \in HookNames, o \in Outcomes : HookShutdownReturn(h, o)
    \/ \E h \in HookNames : HookTorShutdown(h)

\* The promise initialize() awaits settles: the managers' initialize() and
\* getPeers() return or throw after finitely many steps of their own.
HookFairness ==
    \A h \in HookNames :
        /\ WF_vars(\E o \in ManagerOutcomes : HookInitializeReturn(h, o))
        /\ WF_vars(HookGetPeersReturn(h))

HookSpec == Init /\ [][HookNext]_vars /\ HookFairness

HexSpec == Init /\ [][HexNext]_vars

KeySpec == Init /\ [][KeyNext]_vars

CodecSpec == Init /\ [][CodecNext]_vars

\* The session in a build: the release of @waku/message-encryption is
\* resolved before the session builds an encoder or a decoder.
SessionCodecNext ==
    \/ \E api \in LibraryAPIs : ImportLibrary(api)
    \/ codecLib # "none" /\ CallerIdle /\ InitializeBegin
    \/ \E o \in Outcomes : CreateLightNodeReturn(o)
    \/ \E o \in Outcomes : StartReturn(o)
    \/ \E o \in Outcomes : SubscribeReturn(o)
    \/ CallerIdle /\ ShutdownBegin
    \/ StopReturn
    \/ \E k \in Keys : codecLib # "none" /\ CallerIdle /\ SetSymmetricKey(k)

SessionCodecSpec == Init /\ [][SessionCodecNext]_vars

====
